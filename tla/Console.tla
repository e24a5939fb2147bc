------------------------------ MODULE Console -------------------------------
(***************************************************************************)
(* Keyboard and serial input, and console output, on top of the threads    *)
(* and locks of Synch: devices/intq.c, devices/input.c, devices/serial.c,  *)
(* the end of keyboard_interrupt in devices/kbd.c, and lib/kernel/console.c*)
(* of pintos-project3-vm.                                                  *)
(*                                                                         *)
(* There are two interrupt queues: "rx", the input buffer, filled by       *)
(* interrupt handlers and emptied by input_getc; and "tx", filled by       *)
(* serial_putc and emptied by the serial interrupt.  Their functions run   *)
(* with interrupts off and are cut only where the caller sleeps.           *)
(***************************************************************************)
EXTENDS Synch

CONSTANTS
    rx, tx,        \* the locks of the two queues, and the queues' names
    console_lock,
    INTQ_BUFSIZE,
    MsgLen,        \* characters in a call of putbuf
    MaxMsgs        \* BOUND: messages printed by a thread

ASSUME ConsoleAssumption ==
    /\ {rx, tx, console_lock} \subseteq Locks /\ rx # tx
    /\ console_lock \notin {rx, tx}
    /\ INTQ_BUFSIZE \in Nat \ {0, 1}
    /\ {MsgLen, MaxMsgs} \subseteq Nat

VARIABLES
    q,             \* the interrupt queues: a ring, and the thread asleep on it
    ier,           \* interrupt enable register: subset of {"XMIT", "RECV"}
    rbr,           \* the UART holds a received byte
    thr,           \* the UART can take a byte to transmit
    typed,         \* bytes accepted from the devices so far: 1 .. typed
    got,           \* what the calls of input_getc returned, in order
    sent,          \* what went out on the serial line
    msgs, left     \* messages a thread has begun, characters of it to go

ioVars == <<q, ier, rbr, thr, typed, got, sent, msgs, left>>
vars   == <<synchVars, ioVars>>

next(pos)   == (pos + 1) % INTQ_BUFSIZE
intq_empty(k) == k.head = k.tail
intq_full(k)  == next(k.head) = k.tail

\* The bytes in a queue, oldest first.
Contents(k) == [i \in 1 .. ((k.head - k.tail) % INTQ_BUFSIZE) |->
                  k.buf[(k.tail + i - 1) % INTQ_BUFSIZE]]

\* Mutant of Take: signal does not reset *waiter.
MutantTake(k) == [k EXCEPT !.tail = next(@)]

\* Byte b put into, or the oldest byte taken out of, queue k, which has room
\* (a byte); signal resets the sleeping thread.
Put(k, b) == [k EXCEPT !.buf[k.head] = b, !.head = next(@), !.waiter = NULL]
Take(k)   == [k EXCEPT !.tail = next(@), !.waiter = NULL]

write_ier(qq) == (IF intq_empty(qq[tx]) THEN {} ELSE {"XMIT"})
                 \cup (IF intq_full(qq[rx]) THEN {} ELSE {"RECV"})

ConsoleInit ==
    /\ Init
    /\ q = [x \in {rx, tx} |-> [buf |-> [i \in 0 .. INTQ_BUFSIZE - 1 |-> 0],
                                head |-> 0, tail |-> 0, waiter |-> NULL]]
    /\ ier = write_ier(q) /\ rbr = FALSE /\ thr = TRUE
    /\ typed = 0 /\ got = <<>> /\ sent = <<>>
    /\ msgs = [t \in Threads |-> 0] /\ left = [t \in Threads |-> 0]

----------------------------------------------------------------------------
(* The queues, used by threads: input_getc on rx, serial_putc on tx. *)

MustWait(x) == IF x = rx THEN intq_empty(q[x]) ELSE intq_full(q[x])
signal(w)   == IF w = NULL THEN UNCHANGED schedVars ELSE thread_unblock(w)
IqUnchanged == <<work, idle_thread, sleep, cond_waiters, tidVars, rbr, thr, msgs>>

\* input_getc and serial_putc turn interrupts off.
InputGetc ==
    /\ IsAt("run") /\ cur \in work.readers
    /\ Go(Frame("iq_loop", rx, "run"))
    /\ UNCHANGED <<work, schedVars, idle_thread, sleep, sema, holder, cond_waiters,
                   tidVars, ioVars>>

\* lock_acquire with interrupts off, and then wait and its assertion.
IqLock ==
    LET x == pc[cur].on IN
    /\ \/ IsAt("iq_loop") /\ MustWait(x)
       \/ IsAt("iq_lock")
    /\ \/ /\ sema[x].value = 0
          /\ sema' = [sema EXCEPT ![x].waiters = Append(@, cur)]
          /\ Go(Frame("iq_lock", x, pc[cur].ret))
          /\ thread_block
          /\ UNCHANGED <<q, holder>>
       \/ /\ sema[x].value > 0
          /\ sema' = [sema EXCEPT ![x].value = @ - 1]
          /\ holder' = [holder EXCEPT ![x] = cur]
          /\ \/ /\ MustWait(x)
                /\ q' = [q EXCEPT ![x].waiter = cur]
                /\ Go(Frame("iq_wait", x, pc[cur].ret))
                /\ thread_block
             \/ /\ ~MustWait(x)
                /\ Go(At("panic"))
                /\ UNCHANGED <<q, schedVars>>
    /\ UNCHANGED <<IqUnchanged, ier, typed, got, sent, left>>

\* Woken: lock_release, and back to the head of the loop.
IqWoken ==
    LET x == pc[cur].on IN
    /\ IsAt("iq_wait")
    /\ holder' = [holder EXCEPT ![x] = NULL]
    /\ sema_up(x)
    /\ Go(Frame("iq_loop", x, pc[cur].ret))
    /\ UNCHANGED <<IqUnchanged, q, ier, typed, got, sent, left>>

\* intq_getc, serial_notify and the end of input_getc.
GetcDone ==
    /\ IsAt("iq_loop") /\ pc[cur].on = rx /\ ~MustWait(rx)
    /\ got' = Append(got, q[rx].buf[q[rx].tail])
    /\ q' = [q EXCEPT ![rx] = Take(@)]
    /\ ier' = write_ier(q')
    /\ Go(At("run"))
    /\ UNCHANGED <<IqUnchanged, schedVars, sema, holder, typed, sent, left>>

\* Mutant: serial_putc does not call write_ier.
MutantPutcDone ==
    /\ IsAt("iq_loop") /\ pc[cur].on = tx /\ ~MustWait(tx)
    /\ q' = [q EXCEPT ![tx] = Put(@, <<cur, msgs[cur], left[cur]>>)]
    /\ left' = [left EXCEPT ![cur] = @ - 1]
    /\ Go(At("print"))
    /\ UNCHANGED <<IqUnchanged, schedVars, sema, holder, ier, typed, got, sent>>

\* intq_putc, write_ier and the end of serial_putc.
PutcDone ==
    /\ IsAt("iq_loop") /\ pc[cur].on = tx /\ ~MustWait(tx)
    /\ q' = [q EXCEPT ![tx] = Put(@, <<cur, msgs[cur], left[cur]>>)]
    /\ left' = [left EXCEPT ![cur] = @ - 1]
    /\ ier' = write_ier(q')
    /\ Go(At("print"))
    /\ UNCHANGED <<IqUnchanged, schedVars, sema, holder, typed, got, sent>>

----------------------------------------------------------------------------
(* Printing under the console lock. *)

\* Mutant: the console lock is not acquired.
MutantPutbuf ==
    /\ IsAt("run") /\ cur \in work.writers /\ msgs[cur] < MaxMsgs
    /\ msgs' = [msgs EXCEPT ![cur] = @ + 1]
    /\ left' = [left EXCEPT ![cur] = MsgLen]
    /\ Go(At("print"))
    /\ UNCHANGED <<work, schedVars, idle_thread, sleep, sema, holder, cond_waiters,
                   tidVars, q, ier, rbr, thr, typed, got, sent>>

\* acquire_console of a putbuf, puts or vprintf of MsgLen characters.
Putbuf ==
    /\ IsAt("run") /\ cur \in work.writers /\ msgs[cur] < MaxMsgs
    /\ msgs' = [msgs EXCEPT ![cur] = @ + 1]
    /\ left' = [left EXCEPT ![cur] = MsgLen]
    /\ lock_acquire(console_lock, "print")
    /\ UNCHANGED <<work, idle_thread, sleep, holder, cond_waiters, tidVars, q, ier,
                   rbr, thr, typed, got, sent>>

\* putchar_have_lock, or release_console after the last character.
PrintNext ==
    /\ IsAt("print")
    /\ \/ left[cur] > 0 /\ Go(Frame("iq_loop", tx, "print")) /\ UNCHANGED holder
       \/ left[cur] = 0 /\ lock_release(console_lock, "run")
    /\ UNCHANGED <<work, schedVars, idle_thread, sleep, sema, cond_waiters, tidVars,
                   ioVars>>

\* putchar called with interrupts off: a full queue is relieved by polling.
PutcharIntrOff ==
    /\ IsAt("run") /\ cur \in work.writers /\ msgs[cur] < MaxMsgs
    /\ sema[console_lock].value > 0
    /\ LET full == intq_full(q[tx])
           k    == IF full THEN Take(q[tx]) ELSE q[tx]
       IN  /\ q' = [q EXCEPT ![tx] = Put(k, <<cur, msgs[cur] + 1, MsgLen>>)]
           /\ sent' = IF full THEN Append(sent, q[tx].buf[q[tx].tail]) ELSE sent
           /\ signal(IF full THEN q[tx].waiter ELSE NULL)
    /\ ier' = write_ier(q')
    /\ msgs' = [msgs EXCEPT ![cur] = @ + 1]
    /\ UNCHANGED <<work, idle_thread, sleep, sema, holder, cond_waiters, tidVars, pc,
                   rbr, thr, typed, got, left>>

\* serial_flush, before a shutdown: polls everything out.
SerialFlush ==
    /\ IsAt("run") /\ cur \in work.writers /\ ~intq_empty(q[tx])
    /\ sent' = sent \o Contents(q[tx])
    /\ q' = [q EXCEPT ![tx].tail = q[tx].head, ![tx].waiter = NULL]
    /\ signal(q[tx].waiter)
    /\ UNCHANGED <<work, idle_thread, sleep, sema, holder, cond_waiters, tidVars, pc,
                   ier, rbr, thr, typed, got, msgs, left>>

----------------------------------------------------------------------------
(* Interrupt handlers, and the devices. *)

\* Mutant: the handler does not ask whether the buffer is full.
MutantKeyboardInterrupt ==
    /\ IntrOn /\ typed < work.keys
    /\ typed' = typed + 1
    /\ q' = [q EXCEPT ![rx] = Put(@, typed + 1)]
    /\ signal(q[rx].waiter)
    /\ ier' = write_ier(q')
    /\ Unhalt
    /\ UNCHANGED <<work, idle_thread, sleep, sema, holder, cond_waiters, tidVars, rbr,
                   thr, got, sent, msgs, left>>

\* keyboard_interrupt from input_full on: a key finds room or is dropped.
KeyboardInterrupt ==
    /\ IntrOn /\ typed < work.keys
    /\ ~intq_full(q[rx])
    /\ typed' = typed + 1
    /\ q' = [q EXCEPT ![rx] = Put(@, typed + 1)]
    /\ signal(q[rx].waiter)
    /\ ier' = write_ier(q')
    /\ Unhalt
    /\ UNCHANGED <<work, idle_thread, sleep, sema, holder, cond_waiters, tidVars, rbr,
                   thr, got, sent, msgs, left>>

\* serial_interrupt: takes the byte received if there is room, transmits one
\* byte if there is one (the UART is then busy), and updates the register.
SerialInterrupt ==
    /\ IntrOn
    /\ ("RECV" \in ier /\ rbr) \/ ("XMIT" \in ier /\ thr)
    /\ LET in  == rbr /\ ~intq_full(q[rx])
           out == thr /\ ~intq_empty(q[tx])
       IN  /\ q' = [x \in {rx, tx} |->
                      CASE x = rx /\ in  -> Put(q[x], typed + 1)
                        [] x = tx /\ out -> Take(q[x])
                        [] OTHER -> q[x]]
           /\ typed' = IF in THEN typed + 1 ELSE typed
           /\ rbr' = (rbr /\ ~in)
           /\ sent' = IF out THEN Append(sent, q[tx].buf[q[tx].tail]) ELSE sent
           /\ thr' = (thr /\ ~out)
           /\ LET woken == (IF in /\ q[rx].waiter # NULL THEN <<q[rx].waiter>> ELSE <<>>)
                           \o (IF out /\ q[tx].waiter # NULL THEN <<q[tx].waiter>> ELSE <<>>)
              IN  /\ status' = [t \in Threads |->
                                  IF t \in ToSet(woken) THEN "ready" ELSE status[t]]
                  /\ ready_list' = ready_list \o woken
                  /\ UNCHANGED <<cur, thread_ticks>>
    /\ ier' = write_ier(q')
    /\ Unhalt
    /\ UNCHANGED <<work, idle_thread, sleep, sema, holder, cond_waiters, tidVars, got,
                   msgs, left>>

\* The UART (hardware): a byte arrives, a transmission ends.
UartReceives == /\ ~rbr /\ typed < work.keys
                /\ rbr' = TRUE
                /\ UNCHANGED <<synchVars, q, ier, thr, typed, got, sent, msgs,
                               left>>
UartSends    == /\ ~thr
                /\ thr' = TRUE
                /\ UNCHANGED <<synchVars, q, ier, rbr, typed, got, sent, msgs,
                               left>>

----------------------------------------------------------------------------
ConsoleStep == InputGetc \/ IqLock \/ IqWoken \/ GetcDone \/ PutcDone
               \/ Putbuf \/ PrintNext \/ PutcharIntrOff \/ SerialFlush
Interrupt   == KeyboardInterrupt \/ SerialInterrupt

ConsoleNext ==
    \/ Next /\ UNCHANGED ioVars
    \/ ConsoleStep \/ Interrupt \/ UartReceives \/ UartSends

ConsoleSpec == ConsoleInit /\ [][ConsoleNext]_vars

\* As in Synch, with the devices: interrupts are latched, the UART finishes.
CpuStep(t) == cur = t /\ ((ThreadStep /\ UNCHANGED ioVars) \/ ConsoleStep)
ConsoleFairSpec ==
    /\ ConsoleSpec
    /\ \A t \in Threads : SF_vars(CpuStep(t))
    /\ SF_vars(TimerInterrupt /\ UNCHANGED ioVars)
    /\ SF_vars(SerialInterrupt) /\ WF_vars(UartSends)

----------------------------------------------------------------------------
(* Properties. *)

\* Characters are read in the order they were typed, each once: none that an
\* interrupt handler accepted is lost, whoever sleeps on the queue.
InputInOrder == got \o Contents(q[rx]) = [i \in 1 .. typed |-> i]

\* What has been printed leaves in the order it was printed, and messages are
\* not mixed: the characters of a message that is still being printed are the
\* last ones.
Printed == sent \o Contents(q[tx])
OutputUnmixed ==
    \A i \in 1 .. Len(Printed) :
      LET b == Printed[i] IN
      /\ b[3] < MsgLen => i > 1 /\ Printed[i - 1] = <<b[1], b[2], b[3] + 1>>
      /\ \A j \in 1 .. i - 1 : Printed[j] # b

\* A thread asleep on a queue sleeps for a reason: as soon as the queue
\* changes, it is no longer registered as asleep.
SleepsForReason ==
    \A x \in {rx, tx} : q[x].waiter # NULL =>
      /\ MustWait(x) /\ status[q[x].waiter] = "blocked"
      /\ pc[q[x].waiter].at = "iq_wait" /\ pc[q[x].waiter].on = x

\* The assertion in wait of devices/intq.c, that the queue is still empty
\* (full) once the lock is acquired, never fails.
NoPanic == \A t \in Threads : pc[t].at # "panic"

\* Whatever is queued for the serial line is sent.
OutputDrains == Contents(q[tx]) # <<>> ~> Contents(q[tx]) = <<>>
=============================================================================
