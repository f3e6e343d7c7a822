-------------------------------- MODULE Tty ---------------------------------
(***************************************************************************)
(* The driver of a serial line (device/tty): an input buffer with line     *)
(* editing, an output buffer, an echo queue, and the interrupts of the     *)
(* UART that fill and empty them.                                          *)
(*                                                                         *)
(* The calls run with interrupts disabled, so each is one step up to the   *)
(* wait in which it blocks.  A receive interrupt handles one character     *)
(* after the other, and no process runs before it ends.  The characters of *)
(* the echo queue are only counted.                                        *)
(***************************************************************************)
EXTENDS SemOps, FiniteSets, FiniteSetsExt

CONSTANTS
    Procs,              \* processes that use the line
    Keys,               \* what can be typed
    Texts,              \* what is given to ttywrite
    ReadCounts,         \* counts given to ttyread
    Setups,             \* how the line is built and used: the lengths of the
                        \* buffers, the calls of each process and the keys
    Prompt,             \* the processes outrank all others: one that has been
                        \* released runs before the next interrupt
    MaxAvail            \* bound: the count of the input semaphore

ASSUME TtyAssumption ==
    /\ \A s \in Setups :
         /\ s.ibuflen \in Nat \ {0} /\ s.ebuflen \in Nat \ {0}
         /\ s.fifo \in Nat \ {0} /\ s.obuflen >= s.fifo
         /\ s.keys \subseteq Keys
    /\ Prompt \in BOOLEAN

VARIABLES
    setup,              \* the setup; it does not change
    imode, iecho,       \* input mode, and whether input is echoed
    in,                 \* input buffer: tyihead, tyitail, tyicursor, tyisem
    out,                \* output buffer: tyohead, tyotail, tyosem, tyoheld
    echo,               \* characters in the echo queue
    thre,               \* the UART is going to ask for output
    rx,                 \* the receive interrupt is being handled
    call,               \* the call each process is in
    wild,               \* a pointer left its buffer, and anything may happen
    astray              \* the input buffer no longer holds what it should: what
                        \* the driver does then is not followed

modes == <<setup, imode, iecho>>
vars == <<modes, in, out, echo, thre, rx, call, wild, astray>>

TY_IBUFLEN == setup.ibuflen
TY_OBUFLEN == setup.obuflen
TY_EBUFLEN == setup.ebuflen
UART_FIFO_SIZE == setup.fifo

ISlots == 0..(TY_IBUFLEN - 1)
OSlots == 0..(TY_OBUFLEN - 1)

User == [at |-> "user", need |-> 0, first |-> FALSE, cooked |-> FALSE, text |-> << >>]

Blocked(p) == Queued(in.sem, p) \/ Queued(out.sem, p)
Released(p) == call[p].at # "user" /\ ~Blocked(p)
Followed == ~wild /\ ~astray
At(p, at) == Followed /\ ~rx /\ ~Blocked(p) /\ call[p].at = at
Calling(p, c) == At(p, "user") /\ c \in setup.calls[p]

\* What a process inside wait has been promised, or will be.
Inside(at) == {p \in Procs : call[p].at = at}
Readable == in.sem.count + Cardinality(Inside("read") \cup Inside("next"))
Stored == Readable + in.cursor
Replaces == Stored >= TY_IBUFLEN
Written == TY_OBUFLEN - out.sem.count - Cardinality(Inside("write"))

----------------------------------------------------------------------------
Init ==
    /\ setup \in Setups
    /\ imode = "COOKED" /\ iecho = TRUE
    /\ in = [head |-> 0, tail |-> 0, cursor |-> 0, sem |-> semcreate(0),
             buff |-> [i \in ISlots |-> "NUL"]]
    /\ out = [head |-> 0, tail |-> 0, held |-> FALSE, sem |-> semcreate(TY_OBUFLEN),
              buff |-> [i \in OSlots |-> "NUL"]]
    /\ echo = 0 /\ thre = TRUE /\ rx = FALSE
    /\ call = [p \in Procs |-> User]
    /\ wild = FALSE /\ astray = FALSE

Wrap(i, len) == IF i >= len THEN 0 ELSE i

\* An interrupt comes while processes run.
Interruptible == Followed /\ ~rx /\ (Prompt => \A p \in Procs : ~Released(p))

\* The receive interrupt takes the next key.
Receive(c) ==
    /\ Followed /\ (rx \/ Interruptible)
    /\ c \in setup.keys
    /\ in.sem.count <= MaxAvail
    /\ rx' = TRUE

\* All processes that input released become ready when the interrupt ends.
EndReceive == rx /\ rx' = FALSE /\ UNCHANGED <<modes, in, out, echo, thre, call, wild, astray>>

Avail == Max({in.sem.count, 0})

\* eputc, n times.
Echo(n) == /\ echo' = (echo + n) % TY_EBUFLEN
           /\ thre' = (thre \/ n > 0)
Quiet == UNCHANGED <<echo, thre>>

Control(c) == c \in {"EOFCH", "NEWLINE", "RETURN", "BACKSP", "KILLCH", "STOPCH", "STRTCH",
                    "NUL"}
echoch(c) == Echo(IF ~iecho THEN 0 ELSE IF Control(c) THEN 2 ELSE 1)

\* Stores c at the tail and moves the tail to next.  bad: c replaces a character
\* that nobody has read, or will not be counted.
Store(c, next, sem, cursor, bad) ==
    IF in.tail \in ISlots
    THEN /\ in' = [in EXCEPT !.buff[in.tail] = c, !.tail = next, !.sem = sem,
                             !.cursor = cursor]
         /\ astray' = bad
         /\ UNCHANGED wild
    ELSE wild' = TRUE /\ UNCHANGED <<in, astray>>

----------------------------------------------------------------------------
(* ttyhandle_in, case by case.                                             *)

\* Raw mode: the tail is not wrapped, tyotail is looked at instead.
inRaw(c) ==
    /\ Receive(c) /\ imode = "RAW"
    /\ IF Avail >= TY_IBUFLEN THEN UNCHANGED <<in, wild, astray>>
       ELSE Store(c, in.tail + 1, signal(in.sem), in.cursor, Replaces)
    /\ Quiet /\ UNCHANGED <<modes, out, call>>

Mapped(c) == IF c = "RETURN" THEN "NEWLINE" ELSE c

inStart(c) ==
    /\ Receive(c) /\ imode # "RAW" /\ c = "STRTCH"
    /\ out' = [out EXCEPT !.held = FALSE]
    /\ thre' = TRUE
    /\ UNCHANGED <<modes, in, echo, call, wild, astray>>

inStop(c) ==
    /\ Receive(c) /\ imode # "RAW" /\ c = "STOPCH"
    /\ out' = [out EXCEPT !.held = TRUE]
    /\ UNCHANGED <<modes, in, echo, thre, call, wild, astray>>

\* Any other key lets output go on.
Edited(c, mode) ==
    /\ Receive(c) /\ imode = mode /\ c \notin {"STRTCH", "STOPCH"}
    /\ out' = [out EXCEPT !.held = FALSE]
    /\ UNCHANGED <<modes, call>>

\* Cbreak mode stores the key, and signals nobody.
inCbreak(c) ==
    /\ Edited(c, "CBREAK")
    /\ IF Avail >= TY_IBUFLEN THEN Echo(1) /\ UNCHANGED <<in, wild, astray>>
       ELSE /\ Store(Mapped(c), Wrap(in.tail + 1, TY_IBUFLEN), in.sem, in.cursor, TRUE)
            /\ echoch(Mapped(c))

\* Line kill.  It is the head that is moved when the tail has left the buffer.
inKill(c) ==
    /\ Edited(c, "COOKED") /\ c = "KILLCH"
    /\ LET tail == in.tail - in.cursor IN
       /\ in' = [in EXCEPT !.tail = tail, !.cursor = 0,
                           !.head = IF tail < 0 THEN @ + TY_IBUFLEN ELSE @]
       /\ wild' = (tail < 0)
    /\ Echo(2) /\ UNCHANGED astray

\* The tail after erase1.
Erased == IF in.tail - 1 < 0 THEN in.tail - 1 + TY_IBUFLEN ELSE in.tail - 1

inErase(c) ==
    /\ Edited(c, "COOKED") /\ c = "BACKSP"
    /\ IF in.cursor = 0 THEN UNCHANGED in /\ Quiet
       ELSE /\ in' = [in EXCEPT !.cursor = @ - 1, !.tail = Erased]
            /\ Echo(CASE ~iecho -> 0
                      [] iecho /\ Control(in.buff[Erased]) -> 6
                      [] OTHER -> 3)
    /\ UNCHANGED <<wild, astray>>

\* End of line, for which no room is looked for.
inNewline(c) ==
    /\ Edited(c, "COOKED") /\ Mapped(c) = "NEWLINE"
    /\ Store("NEWLINE", Wrap(in.tail + 1, TY_IBUFLEN), signaln(in.sem, in.cursor + 1), 0,
             Replaces)
    /\ echoch("NEWLINE")

\* Mutant: the slot for the end of the line is not kept free.
FullLate == Avail + in.cursor >= TY_IBUFLEN

\* The semaphore no longer counts the characters promised to readers that have
\* been released and have not run.
Full == Avail + in.cursor >= TY_IBUFLEN - 1

Ordinary(c) == Mapped(c) \notin {"KILLCH", "BACKSP", "NEWLINE"}

inFull(c) ==
    /\ Edited(c, "COOKED") /\ Ordinary(c) /\ Full
    /\ Echo(1) /\ UNCHANGED <<in, wild, astray>>

\* End of file counts at the beginning of a line; the tail is not wrapped.
inEof(c) ==
    /\ Edited(c, "COOKED") /\ c = "EOFCH" /\ ~Full
    /\ IF in.cursor # 0 THEN UNCHANGED <<in, wild, astray>>
       ELSE Store(c, in.tail + 1, signal(in.sem), 0, Replaces)
    /\ echoch(c)

inPlain(c) ==
    /\ Edited(c, "COOKED") /\ Ordinary(c) /\ c # "EOFCH" /\ ~Full
    /\ Store(c, Wrap(in.tail + 1, TY_IBUFLEN), in.sem, in.cursor + 1, Replaces)
    /\ echoch(c)

ttyhandle_in(c) ==
    \/ inRaw(c) \/ inStart(c) \/ inStop(c) \/ inCbreak(c) \/ inKill(c) \/ inErase(c)
    \/ inNewline(c) \/ inFull(c) \/ inEof(c) \/ inPlain(c)

----------------------------------------------------------------------------
(* ttyhandle_out: an output interrupt finds the FIFO of the UART empty.    *)

OutputEmpty == echo = 0 /\ out.sem.count >= TY_OBUFLEN

\* Output is held: nothing is sent, so the UART does not ask again.
outHeld ==
    /\ Interruptible /\ thre /\ out.held
    /\ thre' = FALSE
    /\ UNCHANGED <<modes, in, out, echo, rx, call, wild, astray>>

\* Nothing to send: output interrupts are turned off.
outIdle ==
    /\ Interruptible /\ thre /\ ~out.held /\ OutputEmpty
    /\ thre' = FALSE
    /\ UNCHANGED <<modes, in, out, echo, rx, call, wild, astray>>

\* The characters taken from the output buffer after e from the echo queue.
Ochars(e) == Min({UART_FIFO_SIZE - e, TY_OBUFLEN - out.sem.count})

outSend ==
    /\ Interruptible /\ thre /\ ~out.held /\ ~OutputEmpty
    /\ LET e == Min({UART_FIFO_SIZE, echo})
           k == Ochars(e)
       IN  /\ echo' = echo - e
           /\ out' = [out EXCEPT !.head = (@ + k) % TY_OBUFLEN, !.sem = signaln(@, k)]
    /\ UNCHANGED <<modes, in, thre, rx, call, wild, astray>>

ttyhandle_out == outHeld \/ outIdle \/ outSend

----------------------------------------------------------------------------
(* The upper half: ttyread (ttygetc for each character), ttywrite (ttyputc *)
(* for each) and ttycontrol.                                               *)

\* The i-th character from the head.
Char(i) == in.buff[(in.head + i - 1) % TY_IBUFLEN]

\* The i-th character is the last that the call c reads.
Ends(c, i) ==
    \/ i = c.need
    \/ c.cooked /\ Char(i) \in {"NEWLINE", "RETURN"}
    \/ c.cooked /\ imode = "COOKED" /\ c.first /\ i = 1 /\ Char(1) = "EOFCH"

\* Call c of process p reads on until it is done or has to wait.  promised is 1
\* when it has just come out of wait.
ReadOn(p, c, promised) ==
    LET have == promised + Avail
        ends == {i \in 1..have : Ends(c, i)}
        n == IF ends = {} THEN have ELSE Min(ends)
        sem == [in.sem EXCEPT !.count = @ - (n - promised)]
    IN  /\ in' = [in EXCEPT !.head = (@ + n) % TY_IBUFLEN,
                            !.sem = IF ends = {} THEN wait(sem, p) ELSE sem]
        /\ call' = [call EXCEPT ![p] =
                      IF ends # {} THEN User
                      ELSE [c EXCEPT !.need = @ - n, !.first = @ /\ n = 0]]

ReadCall(need) == [at |-> "read", need |-> need, first |-> TRUE,
                   cooked |-> imode = "COOKED", text |-> << >>]

\* In cooked mode a count of 0 reads a character; in the other modes it reads
\* what is there.
ttyread(p, count) ==
    /\ Calling(p, "read")
    /\ LET need == IF imode = "COOKED" THEN Max({count, 1})
                   ELSE IF count = 0 THEN Avail ELSE count
       IN  need > 0 /\ ReadOn(p, ReadCall(need), 0)
    /\ UNCHANGED <<modes, out, echo, thre, rx, wild, astray>>

ttyreadResumed(p) ==
    /\ At(p, "read")
    /\ ReadOn(p, call[p], 1)
    /\ UNCHANGED <<modes, out, echo, thre, rx, wild, astray>>

\* TC_NEXTC waits for a character and signals again.
ttycontrolNext(p) ==
    /\ Calling(p, "next")
    /\ Avail = 0
    /\ in' = [in EXCEPT !.sem = wait(@, p)]
    /\ call' = [call EXCEPT ![p] = [User EXCEPT !.at = "next"]]
    /\ UNCHANGED <<modes, out, echo, thre, rx, wild, astray>>

ttycontrolNextResumed(p) ==
    /\ At(p, "next")
    /\ in' = [in EXCEPT !.sem = signal(@)]
    /\ call' = [call EXCEPT ![p] = User]
    /\ UNCHANGED <<modes, out, echo, thre, rx, wild, astray>>

\* TC_MODER, TC_MODEC, TC_MODEK
ttycontrolMode(p, m) ==
    /\ Calling(p, "mode") /\ imode' = m
    /\ UNCHANGED <<setup, iecho, in, out, echo, thre, rx, call, wild, astray>>

\* TC_ECHO, TC_NOECHO
ttycontrolEcho(p, b) ==
    /\ Calling(p, "echo") /\ iecho' = b
    /\ UNCHANGED <<setup, imode, in, out, echo, thre, rx, call, wild, astray>>

\* A newline is sent as return and newline.
Expanded(text) ==
    FlattenSeq([i \in 1..Len(text) |-> IF text[i] = "NEWLINE" THEN <<"RETURN", "NEWLINE">>
                                       ELSE <<text[i]>>])

\* Mutant: the device is told only about the end of a text.
KickedAtEnd(n, left) == thre \/ left = 0

\* ttykickout after each of the n characters that were put in the buffer.
Kicked(n, left) == thre \/ n > 0

\* Process p puts characters of text in the buffer until it has to wait.
WriteOn(p, text, promised) ==
    LET n == Min({Len(text), promised + Max({out.sem.count, 0})})
        sem == [out.sem EXCEPT !.count = @ - (n - promised)]
        done == n = Len(text)
    IN  /\ out' = [out EXCEPT
                     !.buff = [j \in OSlots |->
                                 LET i == ((j - out.tail + TY_OBUFLEN) % TY_OBUFLEN) + 1
                                     last == {m \in 1..n : m % TY_OBUFLEN = i % TY_OBUFLEN}
                                 IN  IF last = {} THEN @[j] ELSE text[Max(last)]],
                     !.tail = (@ + n) % TY_OBUFLEN,
                     !.sem = IF done THEN sem ELSE wait(sem, p)]
        /\ call' = [call EXCEPT ![p] =
                      IF done THEN User
                      ELSE [User EXCEPT !.at = "write", !.text = SubSeq(text, n + 1, Len(text))]]
        /\ thre' = Kicked(n, Len(text) - n)

ttywrite(p, text) ==
    /\ Calling(p, "write")
    /\ WriteOn(p, Expanded(text), 0)
    /\ UNCHANGED <<modes, in, echo, rx, wild, astray>>

ttywriteResumed(p) ==
    /\ At(p, "write")
    /\ WriteOn(p, call[p].text, 1)
    /\ UNCHANGED <<modes, in, echo, rx, wild, astray>>

----------------------------------------------------------------------------
Resumed(p) == ttyreadResumed(p) \/ ttywriteResumed(p) \/ ttycontrolNextResumed(p)

\* Nothing happens on the line.
other == UNCHANGED vars

Next ==
    \/ \E c \in Keys : ttyhandle_in(c)
    \/ EndReceive
    \/ ttyhandle_out
    \/ \E p \in Procs :
         \/ \E n \in ReadCounts : ttyread(p, n)
         \/ \E t \in Texts : ttywrite(p, t)
         \/ ttycontrolNext(p)
         \/ \E m \in {"COOKED", "RAW", "CBREAK"} : ttycontrolMode(p, m)
         \/ \E b \in BOOLEAN : ttycontrolEcho(p, b)
         \/ Resumed(p)
    \/ other

Spec == Init /\ [][Next]_vars

\* The UART raises the interrupts it owes, a handler ends, and a process that
\* has been released runs.
FairSpec ==
    /\ Spec
    /\ WF_vars(ttyhandle_out) /\ WF_vars(EndReceive)
    /\ \A p \in Procs : WF_vars(Resumed(p))

----------------------------------------------------------------------------
TypeOK ==
    /\ imode \in {"COOKED", "RAW", "CBREAK"} /\ iecho \in BOOLEAN
    /\ in.cursor \in 0..TY_IBUFLEN
    /\ ~wild => in.head \in ISlots /\ in.tail \in 0..TY_IBUFLEN
    /\ out.head \in OSlots /\ out.tail \in OSlots
    /\ out.sem.count <= TY_OBUFLEN
    /\ echo \in 0..(TY_EBUFLEN - 1)
    /\ thre \in BOOLEAN /\ rx \in BOOLEAN /\ wild \in BOOLEAN /\ astray \in BOOLEAN

Window(buff, head, from, n, len) == [i \in 1..n |-> buff[(head + from + i - 1) % len]]

Term == INSTANCE Terminal WITH
            Texts <- {Expanded(t) : t \in Texts},
            line <- Window(in.buff, in.head, Readable, in.cursor, TY_IBUFLEN),
            ready <- Window(in.buff, in.head, 0, Readable, TY_IBUFLEN),
            out <- Window(out.buff, out.head, 0, Written, TY_OBUFLEN),
            todo <- [p \in Procs |-> call[p].text]

\* Processes that have been released and have not read what they were promised.
Promised == {p \in Procs : Released(p) /\ call[p].at \in {"read", "next"}}

\* As long as the input buffer has not gone astray the driver is a terminal:
\* lines are read as they were typed and corrected, and output is transmitted
\* as it was written.  The indices stay in their buffers until then.  An ordinary
\* key replaces one that was not read only when two readers were released by the
\* same interrupt: the slot that is kept free makes up for one.
IsTerminal == /\ Term!Init /\ [][astray' \/ wild' \/ Term!Next]_(Term!vars)
              /\ []TypeOK
              /\ [][astray' /\ (\E c \in Keys : inPlain(c) \/ inEof(c))
                       => Cardinality(Promised) >= 2]_vars

\* A writer that waits for room returns, if output is not held and typing comes
\* to an end: the driver never forgets to ask the UART for an interrupt.
WritersReturn ==
    ([](~out.held) /\ <>[](~rx)) =>
        \A p \in Procs : (call[p].at = "write") ~> (call[p].at # "write" \/ ~Followed)
=============================================================================
