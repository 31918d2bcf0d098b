----------------------------- MODULE PolicyLoad -----------------------------
(***************************************************************************)
(* load_policy (policy/layers.py): the three candidate files, highest      *)
(* precedence first.  Only a file that does not exist is no layer; one     *)
(* that cannot be used, and a missing one the environment names, is an     *)
(* error.                                                                  *)
(***************************************************************************)
EXTENDS PolicyLayers, Sequences

CONSTANTS
  Contents, \* what a path may hold: a missing or unusable file, or a policy
  Path,     \* what the candidates may resolve to
  Provider

Names == <<"RAYSPEC_POLICY", "project", "user">>

VARIABLES
  files,  \* files[p]: what is at a path
  paths,  \* paths[i]: the path of candidate i; RAYSPEC_POLICY may be unset
  at,     \* the next candidate
  seen,   \* the paths read
  loaded, \* the layers
  error   \* PolicyError

vars == <<files, paths, at, seen, loaded, error>>

Init ==
  /\ files \in [Path -> Contents]
  /\ \E first \in 1..2 : paths \in [first..3 -> Path] /\ at = first
  /\ seen = {} /\ loaded = {} /\ error = FALSE

File == files[paths[at]]
Reading == at <= 3 /\ ~error

Skip ==
  /\ Reading
  /\ \/ File.is = "missing" /\ Names[at] # "RAYSPEC_POLICY"
     \/ File.is = "policy" /\ paths[at] \in seen
  /\ at' = at + 1
  /\ UNCHANGED <<files, paths, seen, loaded, error>>

Refuse ==
  /\ Reading
  /\ File.is = "unusable" \/ (File.is = "missing" /\ Names[at] = "RAYSPEC_POLICY")
  /\ error' = TRUE
  /\ UNCHANGED <<files, paths, at, seen, loaded>>

ReadLayer ==
  /\ Reading /\ File.is = "policy" /\ paths[at] \notin seen
  /\ loaded' = loaded \union {File.layer}
  /\ seen' = seen \union {paths[at]}
  /\ at' = at + 1
  /\ UNCHANGED <<files, paths, error>>

Next == Skip \/ Refuse \/ ReadLayer
Spec == Init /\ [][Next]_vars

------------------------------------------------------------------------------

\* No layer loosens another: the limit a provider ends up with is no wider than what any loaded
\* layer sets for it, by name or by the "*" that covers every provider (docs/policy.md).
NoLayerLoosens ==
  \A layer \in loaded, p \in Provider :
    \A own \in LimitsFor(MaxConcurrentRuns({layer}), p) :
      \A merged \in LimitsFor(MaxConcurrentRuns(loaded), p) : merged <= own
==============================================================================
