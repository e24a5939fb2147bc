----------------------------- MODULE MCConsole ------------------------------
(***************************************************************************)
(* Console, and Synch in it, for TLC: the workloads of its runs.           *)
(***************************************************************************)
EXTENDS Console

CONSTANTS t1, t2, t3

Workload(lockers, creators, children, sleepers, readers, writers, keys) ==
    [lockers |-> lockers, creators |-> creators, children |-> children,
     sleepers |-> sleepers, readers |-> readers, writers |-> writers,
     keys |-> keys]

\* keys is the number of characters typed.  Two threads create threads at once,
\* and one sleeps; three threads share a monitor; two print, and one of them
\* reads.
MCWorkloads ==
    {Workload({}, {main, t1}, {t1, t2, t3}, {t3}, {}, {}, 0),
     Workload({main, t1, t2}, {main}, {t1, t2}, {}, {}, {}, 0),
     Workload({}, {main}, {t1}, {}, {t1}, {main, t1}, 2)}

\* Two processes read the keyboard at once.
TwoReaders == {Workload({}, {main}, {t1}, {}, {main, t1}, {}, 2)}
=============================================================================
