---- MODULE MCWatchAdapter ----
(* Instances of WatchAdapter: the loop of start_watch_adapter.sh, and the  *)
(* audit and dry runs somebody starts beside it.                           *)
EXTENDS WatchAdapter

MCWatchers == {"loop", "byhand"}

MCJobs == [loop   |-> {[loop |-> TRUE, dry |-> FALSE, audit |-> FALSE]},
           byhand |-> {[loop |-> FALSE, dry |-> FALSE, audit |-> TRUE],
                       [loop |-> FALSE, dry |-> TRUE, audit |-> FALSE]}]

MCFiles == {[area |-> "accepted", story |-> "A", mtime |-> 1], [area |-> "accepted", story |-> "A", mtime |-> 2],
            [area |-> "exchange", story |-> "B", mtime |-> 1], [area |-> "control", story |-> "", mtime |-> 1]}
====
