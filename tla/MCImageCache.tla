---------------------------- MODULE MCImageCache ----------------------------
(* The build settings of the runs: the defaults of workspace_config.py, the *)
(* strict content_hash example of docs/SETUP.md, and variants of them.      *)
EXTENDS ImageCache, TLC

Default == [enabled |-> TRUE, prebuilt |-> TRUE, validation |-> "strict",
            format |-> "git", strategy |-> "smart", git_commit |-> TRUE,
            git_dirty |-> TRUE, dependencies |-> TRUE, max_age |-> TRUE,
            on_stale |-> "rebuild", on_missing |-> "build"]
Strict == [Default EXCEPT !.format = "content", !.strategy = "content_hash"]

\* fixed is what tests/test_runtime_tasks.py configures.
Mixed == {Strict, [Default EXCEPT !.validation = "disabled"],
          [Default EXCEPT !.format = "fixed", !.on_stale = "fail", !.git_dirty = FALSE]}
StrictOnly == {Strict}

NoExcludes == {{}}

Symmetry == Permutations(Commits)

=============================================================================
