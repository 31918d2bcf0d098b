----------------------------- MODULE GovernedRun -----------------------------
(***************************************************************************)
(* A run with gates under policy files: apply_policy judges its agents     *)
(* before every process of it (loader/validate.py, cli/commands/resume.py) *)
(* and what it promises holds whenever a process is alive.                 *)
(***************************************************************************)
EXTENDS Gates, ProviderOptions

\* The options of every agent in a process that runs passed apply_policy, so they widen nothing
\* that any control narrowed.
NothingWidened == live => OptionsWidenNothing

\* A process that runs would also have been let in without any one of its policy files, and
\* could have reached and approved at least as much.
RestrictionsOnlyAdd == live => LayersOnlyRestrict
==============================================================================
