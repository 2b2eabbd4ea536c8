----------------------------- MODULE MCTinaTest -----------------------------
EXTENDS TinaTest

Case == [run_times |-> 1, run_alone |-> FALSE, run_parallel |-> FALSE, may_reboot |-> FALSE,
         exit_once_failed |-> FALSE, timeout_as_failed |-> FALSE,
         exit_tinatest_when_fail |-> FALSE, does |-> {"pass", "fail"},
         once_limit |-> TRUE, whole_limit |-> FALSE]

\* Two runs in parallel, two in a row, one that may reboot and does not, with which
\* tinatest gives up when it fails, and one more after it.
Schedule == <<[Case EXCEPT !.run_times = 2, !.run_parallel = TRUE, !.once_limit = FALSE,
                           !.does = {"pass"}],
              [Case EXCEPT !.run_times = 2, !.once_limit = FALSE, !.does = {"pass"}],
              [Case EXCEPT !.may_reboot = TRUE, !.exit_tinatest_when_fail = TRUE],
              [Case EXCEPT !.once_limit = FALSE, !.does = {"pass"}]>>

\* Two test cases that reboot every time, the second with its runs in parallel, between
\* two that do not.
Reboots == <<Case,
             [Case EXCEPT !.run_times = 2, !.may_reboot = TRUE, !.does = {"reboot"},
                          !.once_limit = FALSE],
             [Case EXCEPT !.run_times = 2, !.may_reboot = TRUE, !.does = {"reboot"},
                          !.once_limit = FALSE, !.run_parallel = TRUE],
             Case>>

\* Two runs in a row with both limits, two in parallel, two that reboot.
Mixed == <<[Case EXCEPT !.run_times = 2, !.whole_limit = TRUE, !.exit_once_failed = TRUE],
           [Case EXCEPT !.run_times = 2, !.run_parallel = TRUE],
           [Case EXCEPT !.run_times = 2, !.may_reboot = TRUE, !.does = {"reboot"},
                        !.once_limit = FALSE]>>
=============================================================================
