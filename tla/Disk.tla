-------------------------------- MODULE Disk --------------------------------
(***************************************************************************)
(* The disk driver (devices/ide.c): one channel, with its lock, its flag   *)
(* and its semaphore, and the two drives on it.  The channels share        *)
(* nothing.                                                                *)
(*                                                                         *)
(* The driver finds the drives at start-up, in the only thread there is;   *)
(* later any thread reads and writes sectors.  A drive works by itself and *)
(* raises an interrupt when it has data or has stored some.  It may fail,  *)
(* and the line may report an interrupt that nobody raised.                *)
(***************************************************************************)
EXTENDS Naturals, FiniteSets

CONSTANTS
    Thread, Main,   \* the threads, and the one that starts the kernel
    DiskSector,
    Contents,       \* what a sector may hold
    Blank0,         \* what all sectors hold at first
    DriveKinds,     \* BOUND: what the drives may turn out to be
    MaxTransfers,   \* BOUND: reads and writes
    MaxFaults,      \* BOUND: failures of a drive
    MaxSpurious     \* BOUND: interrupts that nobody raised

ASSUME DiskAssumption ==
    /\ Main \in Thread /\ Blank0 \in Contents
    /\ {MaxTransfers, MaxFaults, MaxSpurious} \subseteq Nat

Dev == {0, 1}
Idle == "idle"
NoRequest == [op |-> "none", d |-> 0, sec |-> 0, data |-> 0]

VARIABLES
    boot,       \* what ide_init does next, "up" at the end
    is_ata,     \* of each device
    registered, \* devices that are block devices
    holder,     \* of the channel's lock: a set
    pc, req,    \* where each thread is, and what it is to do
    expecting_interrupt,
    completion_wait,
    selected,   \* the device register
    drive,      \* the drives: kind, state, command, sector and data register
    line,       \* an interrupt is pending
    medium,     \* what the sectors hold
    last,       \* history: what was handed to the drives
    overrun,    \* history: a drive was given a command while it was busy, maybe
    faults, spurious, transfers

drVars == <<boot, is_ata, registered, holder, pc, req, expecting_interrupt, completion_wait, selected, drive, line, medium,
            last, overrun, faults, spurious, transfers>>
bootVars == <<boot, is_ata, registered>>
counts == <<spurious, transfers>>

----------------------------------------------------------------------------
(* Primitives *)

\* wait_until_idle gives up after a while and the caller goes on; reading the
\* status takes back an interrupt that is pending.
select_device(d) == selected' = d
wait_until_idle(d) ==
    IF drive[d].state = Idle THEN UNCHANGED <<overrun, faults>>
    ELSE faults < MaxFaults /\ faults' = faults + 1 /\ overrun' = TRUE
select_device_wait(d) ==
    /\ IF drive[selected].state = Idle THEN wait_until_idle(d) ELSE wait_until_idle(selected)
    /\ select_device(d) /\ line' = FALSE

\* Mutant: the flag is not set.
MutantIssue(d, op, sec) ==
    /\ UNCHANGED expecting_interrupt
    /\ drive' = [drive EXCEPT ![d].state = "busy", ![d].cmd = op, ![d].sec = sec]

issue_pio_command(d, op, sec) ==
    /\ expecting_interrupt' = TRUE
    /\ drive' = [drive EXCEPT ![d].state = "busy", ![d].cmd = op, ![d].sec = sec]

Goto(t, place) == pc' = [pc EXCEPT ![t] = place]

----------------------------------------------------------------------------
(* Start-up *)

\* reset_channel ends with the last drive that is present selected.
reset_channel ==
    /\ boot = "reset" /\ boot' = "check0"
    /\ drive' = [d \in Dev |-> [drive[d] EXCEPT !.state = Idle, !.cmd = "none"]]
    /\ select_device(IF drive[1].kind.present THEN 1 ELSE 0)
    /\ UNCHANGED <<is_ata, registered, holder, pc, req, expecting_interrupt, completion_wait, line, medium, last, counts, overrun, faults>>

\* The error register of a drive that is not ready: 1 fine, 129 the other
\* drive has failed.  Reading the status takes back an interrupt.
check_device_type(d) ==
    /\ boot = IF d = 0 THEN "check0" ELSE "check1"
    /\ LET k  == drive[d].kind
           ok == (k.error = 1 \/ (k.error = 129 /\ d = 0)) /\ k.ready
           more == IF ok THEN TRUE ELSE k.error # 129
       IN  /\ is_ata' = [is_ata EXCEPT ![d] = ok /\ k.ata]
           /\ boot' = IF d = 0 /\ more THEN "check1" ELSE "ident0"
    /\ select_device(d) /\ line' = FALSE
    /\ UNCHANGED <<registered, holder, pc, req, expecting_interrupt, completion_wait, drive, medium, last, counts, overrun, faults>>

\* The next device that is a disk is identified, without the lock.
AfterIdent(d) == IF d = 0 THEN "ident1" ELSE "up"
identify_ata_device(d) ==
    /\ boot = IF d = 0 THEN "ident0" ELSE "ident1"
    /\ pc[Main] = Idle
    /\ IF is_ata[d]
       THEN /\ pc' = [pc EXCEPT ![Main] = "issue"] /\ UNCHANGED boot
            /\ req' = [req EXCEPT ![Main] = [op |-> "identify", d |-> d, sec |-> 0, data |-> 0]]
            /\ select_device_wait(d)
       ELSE boot' = AfterIdent(d) /\ UNCHANGED <<pc, req, selected, line, overrun, faults>>
    /\ UNCHANGED <<is_ata, registered, holder, expecting_interrupt, completion_wait, drive, medium, last, counts>>
\* A disk that does not answer, or is too large, is left alone.
Identified(d, ok) ==
    /\ boot' = AfterIdent(d)
    /\ is_ata' = [is_ata EXCEPT ![d] = ok]
    /\ registered' = IF ok THEN registered \cup {d} ELSE registered

----------------------------------------------------------------------------
(* ide_read and ide_write *)

Acquire(t, op, d, sec, data) ==
    /\ boot = "up" /\ pc[t] = Idle /\ d \in registered /\ holder = {} /\ transfers < MaxTransfers
    /\ holder' = {t} /\ Goto(t, "select")
    /\ req' = [req EXCEPT ![t] = [op |-> op, d |-> d, sec |-> sec, data |-> data]]
    /\ transfers' = transfers + 1
    /\ UNCHANGED <<bootVars, expecting_interrupt, completion_wait, selected, drive, line, medium, last, spurious, overrun, faults>>

select_sector(t) ==
    /\ pc[t] = "select" /\ select_device_wait(req[t].d) /\ Goto(t, "issue")
    /\ UNCHANGED <<bootVars, holder, req, expecting_interrupt, completion_wait, drive, medium, last, counts>>

\* A write sends its data before it waits for the interrupt.
Issue(t) ==
    /\ pc[t] = "issue" /\ issue_pio_command(req[t].d, req[t].op, req[t].sec)
    /\ Goto(t, IF req[t].op = "write" THEN "busy" ELSE "down")
    /\ UNCHANGED <<bootVars, holder, req, completion_wait, selected, line, medium, last, counts, overrun, faults>>

sema_down(t) ==
    /\ pc[t] = "down" /\ completion_wait > 0
    /\ completion_wait' = completion_wait - 1
    /\ Goto(t, IF req[t].op = "write" THEN "release" ELSE "busy")
    /\ UNCHANGED <<bootVars, holder, req, expecting_interrupt, selected, drive, line, medium, last, counts, overrun, faults>>

\* Neither busy nor with data: the command failed.
Answered(t, drq) ==
    IF drq THEN Goto(t, "transfer") /\ UNCHANGED bootVars
    ELSE IF req[t].op = "identify" THEN Goto(t, Idle) /\ Identified(req[t].d, FALSE)
    ELSE Goto(t, "panic") /\ UNCHANGED bootVars
wait_while_busy(t) ==
    /\ pc[t] = "busy" /\ drive[req[t].d].state # "busy"
    /\ Answered(t, drive[req[t].d].state = "drq")
    /\ UNCHANGED <<holder, req, expecting_interrupt, completion_wait, selected, drive, line, medium, last, counts, overrun, faults>>
\* After 30 seconds it gives up.
BusyTimeout(t) ==
    /\ pc[t] = "busy" /\ drive[req[t].d].state = "busy" /\ faults < MaxFaults
    /\ faults' = faults + 1
    /\ Answered(t, FALSE)
    /\ UNCHANGED <<holder, req, expecting_interrupt, completion_wait, selected, drive, line, medium, last, spurious, transfers, overrun>>

input_sector(t) ==
    /\ pc[t] = "transfer" /\ req[t].op # "write"
    /\ drive' = [drive EXCEPT ![req[t].d].state = Idle, ![req[t].d].cmd = "none"]
    /\ IF req[t].op = "identify"
       THEN Goto(t, Idle) /\ Identified(req[t].d, ~drive[req[t].d].kind.large) /\ UNCHANGED req
       ELSE Goto(t, "release") /\ req' = [req EXCEPT ![t].data = drive[req[t].d].data] /\ UNCHANGED bootVars
    /\ UNCHANGED <<holder, expecting_interrupt, completion_wait, selected, line, medium, last, counts, overrun, faults>>
output_sector(t) ==
    /\ pc[t] = "transfer" /\ req[t].op = "write" /\ Goto(t, "down")
    /\ drive' = [drive EXCEPT ![req[t].d].state = "busy", ![req[t].d].cmd = "store", ![req[t].d].data = req[t].data]
    /\ last' = [last EXCEPT ![req[t].d][req[t].sec] = req[t].data]
    /\ UNCHANGED <<bootVars, holder, req, expecting_interrupt, completion_wait, selected, line, medium, counts, overrun, faults>>

Release(t) ==
    /\ pc[t] = "release" /\ Goto(t, Idle) /\ holder' = {}
    /\ req' = [req EXCEPT ![t] = NoRequest]
    /\ UNCHANGED <<bootVars, expecting_interrupt, completion_wait, selected, drive, line, medium, last, counts, overrun, faults>>

\* The flag is never taken back: after the first command every interrupt counts.
interrupt_handler ==
    /\ line /\ line' = FALSE
    /\ completion_wait' = IF expecting_interrupt THEN completion_wait + 1 ELSE completion_wait
    /\ UNCHANGED <<bootVars, holder, pc, req, expecting_interrupt, selected, drive, medium, last, counts, overrun, faults>>

----------------------------------------------------------------------------
(* The drives, external *)

\* For a write a drive asks for the data without an interrupt.
DriveWorks(d) ==
    /\ drive[d].state = "busy"
    /\ LET r == drive[d] IN
       /\ drive' = [drive EXCEPT ![d].state = IF r.cmd = "store" THEN Idle ELSE "drq",
                                 ![d].cmd = IF r.cmd = "store" THEN "none" ELSE @,
                                 ![d].data = IF r.cmd = "read" THEN medium[d][r.sec] ELSE @]
       /\ medium' = IF r.cmd = "store" THEN [medium EXCEPT ![d][r.sec] = r.data] ELSE medium
       /\ line' = (line \/ r.cmd # "write")
    /\ UNCHANGED <<bootVars, holder, pc, req, expecting_interrupt, completion_wait, selected, last, counts, overrun, faults>>
DriveFails(d) ==
    /\ drive[d].state = "busy" /\ faults < MaxFaults
    /\ drive' = [drive EXCEPT ![d].state = Idle, ![d].cmd = "none"]
    /\ last' = IF drive[d].cmd = "store" THEN [last EXCEPT ![d][drive[d].sec] = medium[d][drive[d].sec]] ELSE last
    /\ line' = TRUE /\ faults' = faults + 1
    /\ UNCHANGED <<bootVars, holder, pc, req, expecting_interrupt, completion_wait, selected, medium, spurious, transfers, overrun>>
SpuriousInterrupt ==
    /\ ~line /\ spurious < MaxSpurious
    /\ line' = TRUE /\ spurious' = spurious + 1
    /\ UNCHANGED <<bootVars, holder, pc, req, expecting_interrupt, completion_wait, selected, drive, medium, last, transfers, overrun, faults>>

DiskInit ==
    /\ boot = "reset" /\ is_ata = [d \in Dev |-> FALSE] /\ registered = {}
    /\ holder = {} /\ pc = [t \in Thread |-> Idle] /\ req = [t \in Thread |-> NoRequest]
    /\ expecting_interrupt = FALSE /\ completion_wait = 0 /\ selected = 0 /\ line = FALSE
    /\ \E kind \in [Dev -> DriveKinds] :
         drive = [d \in Dev |-> [kind |-> kind[d], state |-> Idle, cmd |-> "none", sec |-> 0, data |-> 0]]
    /\ medium = [d \in Dev |-> [s \in DiskSector |-> Blank0]] /\ last = medium
    /\ overrun = FALSE /\ faults = 0 /\ spurious = 0 /\ transfers = 0

\* A panic stops the kernel.
DiskNext ==
    /\ \A t \in Thread : pc[t] # "panic"
    /\ \/ reset_channel \/ interrupt_handler \/ SpuriousInterrupt
       \/ \E d \in Dev : check_device_type(d) \/ identify_ata_device(d) \/ DriveWorks(d) \/ DriveFails(d)
       \/ \E t \in Thread, d \in Dev, s \in DiskSector :
            Acquire(t, "read", d, s, 0) \/ \E v \in Contents : Acquire(t, "write", d, s, v)
       \/ \E t \in Thread : \/ select_sector(t) \/ Issue(t) \/ sema_down(t) \/ wait_while_busy(t) \/ BusyTimeout(t)
                            \/ input_sector(t) \/ output_sector(t) \/ Release(t)

DiskSpec == DiskInit /\ [][DiskNext]_drVars

----------------------------------------------------------------------------
(* Correctness *)

\* A read returns what was handed over last for its sector, even if an earlier
\* write returned too soon or a spurious interrupt ended the wait; not if a drive
\* was given a command while it was busy, see Orderly.
ReadsLast == ~overrun => \A t \in Thread : (pc[t] = "release" /\ req[t].op = "read") => req[t].data = last[req[t].d][req[t].sec]

\* One thread talks to the drives, and a drive is given no command while it
\* carries out another, unless a spurious interrupt ended a wait and the drive
\* then was busy for longer than select_device_wait waits.
Orderly ==
    /\ Cardinality({t \in Thread : pc[t] \notin {Idle, "panic"}}) <= 1
    /\ ~overrun => \A t \in Thread : pc[t] = "issue" => selected = req[t].d /\ \A d \in Dev : drive[d].state = Idle
    /\ overrun => spurious > 0

\* The interrupt that a thread waits for has been counted, is pending, or will come.
NoLostCompletion ==
    \A t \in Thread : (pc[t] = "down") => completion_wait > 0 \/ line \/ drive[req[t].d].state = "busy"

\* The interrupts counted, pending or still to come, beyond those waited for.
Surplus ==
    completion_wait + (IF line THEN 1 ELSE 0)
    + Cardinality({d \in Dev : drive[d].state = "busy" /\ drive[d].cmd # "write"})
    - Cardinality({t \in Thread : pc[t] = "down"})

\* The kernel has panicked, or will: the drive gave up before it asked for the data.
Doomed(t) == pc[t] = "panic" \/ (pc[t] = "busy" /\ req[t].op = "write" /\ drive[req[t].d].state = Idle)

\* ide.c:71-72 has expecting_interrupt tell an interrupt that nobody raised from
\* one that is due; it stays up from the first command on, so that such an
\* interrupt counts like the others.  Each puts the waits ahead by one at most,
\* for ever, whatever is read and written after it: a write may then return
\* while the drive is still storing its data, which ide.c:361 excludes.  Without
\* one every write returns when the drive is done: stored, or failed.
Acknowledged ==
    /\ registered # {} => expecting_interrupt
    /\ (\E t \in Thread : Doomed(t)) \/ Surplus \in 0 .. spurious
    /\ \A t \in Thread : (pc[t] = "release" /\ req[t].op = "write") =>
         LET r == req[t] IN
         /\ drive[r.d].state = Idle \/ (drive[r.d].cmd = "store" /\ drive[r.d].data = r.data)
         /\ drive[r.d].state = Idle /\ faults = 0 => medium[r.d][r.sec] = r.data

\* Only disks of a size that is allowed are ever used.
OnlyDisks == \A d \in registered : is_ata[d] /\ drive[d].kind.ata /\ ~drive[d].kind.large

(***************************************************************************)
(* However threads, drives and interrupts interleave, commands never       *)
(* overlap, a read returns what was last written to its sector, no thread  *)
(* waits for an interrupt that will not come, and a write returns when the *)
(* drive has acknowledged it (ide.c:343, 358, 361, 405, 512), up to as     *)
(* many acknowledgments as there were interrupts that nobody raised.       *)
(***************************************************************************)
DiskRight == ReadsLast /\ Orderly /\ NoLostCompletion /\ Acknowledged /\ OnlyDisks
=============================================================================
