------------------------------- MODULE Console -------------------------------
(* The console and its serial line (dev/console.c, dev/uart.c): the        *)
(* handler of the UART's interrupt, which edits the line being typed,      *)
(* tasks that read it and tasks that write.                                *)
(*                                                                         *)
(* A step is what happens under con.lock or tx without a wait. The PLIC    *)
(* gives the interrupt to one CPU at a time, so there is one handler; what *)
(* it still has to do for the key it took is todo. The interrupt is up as  *)
(* long as the transmitter is empty. Wakeups reach whoever sleeps          *)
(* (NoLostWakeup of Sched).                                                *)
EXTENDS Integers, Sequences

CONSTANTS
    CReader, CWriter,       \* tasks
    Key,                    \* the keys
    CONSOLE_BUFFER_SIZE,
    TB,                     \* bytes of the buffer for escape sequences
    TX,                     \* bytes of the buffer of uart_write
    Ask,                    \* the lengths reads ask for
    Session                 \* bounds: keys typed, reads and writes of each task

ASSUME ConsoleSizes == CONSOLE_BUFFER_SIZE \in Nat \ {0} /\ TB \in Nat /\ TX \in Nat
ASSUME ConsoleTasks == "nobody" \notin CReader \cup CWriter
ASSUME AskAssumption == Ask \subseteq Nat \ {0}      \* no read of nothing
ASSUME SessionAssumption == Session \subseteq [keys : Nat, reads : Nat, writes : Nat]

VARIABLES
    con,        \* r, w, buf; tb's used length i and tflag; its lock's holder
    rd,         \* each reader: pc, the length asked for, what was copied
    todo,       \* what the handler has still to do
    tx,         \* holder of tx
    thr,        \* LSR_W: the transmitter is empty
    txbuf,      \* the buffer of uart_write, which all calls share
    wr,         \* each writer: pc, bytes left, size and place in this turn
    out,        \* history: the bytes each writer has got to the line
    keys,       \* bound: how many keys may still be typed
    line,       \* history: what the keys typed leave to be read
    codd        \* history: uses outside what the code is written for

readers == <<con, rd, todo, keys, line>>
writers == <<tx, txbuf, wr, out>>
cvars == <<readers, writers, thr, codd>>

SIZE == CONSOLE_BUFFER_SIZE
Nobody == "nobody"
Nul == "0"
console_readable_len == (con.w - con.r + SIZE) % SIZE
console_isfull == (con.w + 1) % SIZE = con.r
console_isempty == con.w = con.r

CIdle(n) == [pc |-> "idle", reads |-> n, len |-> 0, got |-> <<>>]
WIdle(n) == [pc |-> "idle", lines |-> n, len |-> 0, size |-> 0, i |-> 0]

CInit ==
    /\ con = [r |-> 0, w |-> 0, buf |-> [n \in 0..(SIZE - 1) |-> Nul], i |-> 0, tflag |-> FALSE,
              lock |-> Nobody]
    /\ todo = <<>>
    /\ tx = Nobody
    /\ thr = TRUE
    /\ txbuf = [n \in 0..(TX - 1) |-> Nul]
    /\ \E s \in Session : /\ keys = s.keys
                          /\ rd = [c \in CReader |-> CIdle(s.reads)]
                          /\ wr = [t \in CWriter |-> WIdle(s.writes)]
    /\ out = [t \in CWriter |-> <<>>]
    /\ line = <<>>
    /\ codd = {}

(* The kernel has run over the end of a buffer.                            *)
Wild == "wild" \in codd
-----------------------------------------------------------------------------
(* Slip in do_console_irq: the end of a line wakes nobody.                 *)
do_console_irq_silent(ch) ==
    CASE ch = "BACKSPACE" -> <<"BS", " ", "BS">>
      [] ch = "CTRL_D" -> <<"CTRL_D", "wakeup">>
      [] ch = "CTRL_N" -> <<"clean">>
      [] OTHER -> <<ch>>

(* What is to be done for a key.                                           *)
do_console_irq(ch) ==
    CASE ch = "BACKSPACE" -> <<"BS", " ", "BS">>
      [] ch = "NL" -> <<"NL", "wakeup">>
      [] ch = "CTRL_D" -> <<"CTRL_D", "wakeup">>
      [] ch = "CTRL_N" -> <<"clean">>
      [] OTHER -> <<ch>>

WakeWriters == [t \in CWriter |-> IF wr[t].pc = "asleep" THEN [wr[t] EXCEPT !.pc = "get"] ELSE wr[t]]

(* The writers are woken, and a key is taken when there is one.            *)
do_uart_irq ==
    /\ todo = <<>> /\ thr
    /\ wr' = WakeWriters
    /\ \/ UNCHANGED <<todo, keys>>
       \/ /\ keys > 0
          /\ keys' = keys - 1
          /\ \E ch \in Key : todo' = do_console_irq(ch)
    /\ UNCHANGED <<con, rd, tx, thr, txbuf, out, line, codd>>

(* uart_put_syn waits for the transmitter with tx held.                    *)
uart_put_syn == tx = Nobody /\ thr /\ thr' = FALSE

reset_tb(c) == [c EXCEPT !.i = 0, !.tflag = FALSE]

(* The end of an escape sequence; an "O" has a byte after it.              *)
try_transfer(c, ch) == IF ch \in {"~", "a"} THEN reset_tb(c) ELSE c

(* What a key does to the line: the reference for the buffer.              *)
Edited(ch) ==
    IF con.tflag \/ ch = "ESC" THEN line
    ELSE IF ch = "BS" THEN IF line # <<>> /\ line[Len(line)] # "NL" THEN SubSeq(line, 1, Len(line) - 1) ELSE line
    ELSE IF Len(line) = SIZE - 1 THEN line ELSE Append(line, ch)

(* Slip in Erases: the end of the line before is not looked at.            *)
ErasesAny == con.w # con.r

(* With w = 0 the byte before buf is looked at, a byte of w that is 0: the *)
(* last byte of buf goes even when it ends a line.                         *)
Erases == con.w # con.r /\ (con.w = 0 \/ con.buf[con.w - 1] # "NL")
Edge == con.w = 0 /\ con.buf[SIZE - 1] = "NL"

console_putc(ch) ==
    LET back == (con.w - 1 + SIZE) % SIZE
        put == [con EXCEPT !.buf[con.w] = ch, !.w = (@ + 1) % SIZE]
        esc == [con EXCEPT !.i = @ + 1, !.tflag = TRUE]
        Quiet == UNCHANGED thr
    IN /\ con.lock = Nobody
       /\ line' = Edited(ch)
       /\ \/ /\ con.tflag /\ con.i < TB /\ Quiet
             /\ con' = try_transfer([con EXCEPT !.i = @ + 1], ch)
             /\ UNCHANGED codd
          \/ /\ con.tflag /\ con.i = TB /\ Quiet
             /\ codd' = codd \cup {"wild"}
             /\ UNCHANGED con
          \/ /\ ~con.tflag /\ ch = "ESC" /\ Quiet
             /\ con' = esc
             /\ UNCHANGED codd
          \/ /\ ~con.tflag /\ ch = "BS"
             /\ IF Erases THEN con' = [con EXCEPT !.w = back] /\ uart_put_syn ELSE Quiet /\ UNCHANGED con
             /\ codd' = IF Erases /\ Edge THEN codd \cup {"edge"} ELSE codd
          \/ /\ ~con.tflag /\ ch \notin {"BS", "ESC"}
             /\ con' = IF console_isfull THEN con ELSE put
             /\ uart_put_syn
             /\ UNCHANGED codd

(* clean_console takes no lock.                                            *)
clean_console ==
    /\ con' = [reset_tb(con) EXCEPT !.r = 0, !.w = 0, !.buf = [n \in DOMAIN @ |-> Nul]]
    /\ line' = <<>>
    /\ uart_put_syn
    /\ codd' = IF con.lock = Nobody THEN codd ELSE codd \cup {"race"}

HandlerPut ==
    /\ todo # <<>> /\ Head(todo) \notin {"wakeup", "clean"}
    /\ console_putc(Head(todo))
    /\ todo' = Tail(todo)
    /\ UNCHANGED <<rd, keys, writers>>

HandlerClean ==
    /\ todo # <<>> /\ Head(todo) = "clean"
    /\ clean_console
    /\ todo' = Tail(todo)
    /\ UNCHANGED <<rd, keys, writers>>

HandlerWake ==
    /\ todo # <<>> /\ Head(todo) = "wakeup"
    /\ rd' = [c \in CReader |-> IF rd[c].pc = "asleep" THEN [rd[c] EXCEPT !.pc = "get"] ELSE rd[c]]
    /\ todo' = Tail(todo)
    /\ UNCHANGED <<con, keys, line, writers, thr, codd>>
-----------------------------------------------------------------------------
console_read(c, len) ==
    /\ rd[c].pc = "idle" /\ rd[c].reads > 0
    /\ rd' = [rd EXCEPT ![c] = [pc |-> "get", reads |-> @.reads - 1, len |-> len, got |-> <<>>]]
    /\ UNCHANGED <<con, todo, keys, line, writers, thr, codd>>

ConTest(c) ==
    /\ rd[c].pc = "get" /\ con.lock = Nobody
    /\ IF console_isempty THEN rd' = [rd EXCEPT ![c].pc = "asleep"] /\ UNCHANGED con
       ELSE rd' = [rd EXCEPT ![c].pc = "copy"] /\ con' = [con EXCEPT !.lock = c]
    /\ UNCHANGED <<todo, keys, line, writers, thr, codd>>

(* The second slice has a length below zero, a copy without end, when less *)
(* is read than lies between r and the end of the buffer.                  *)
ConCopy(c) ==
    LET len == IF rd[c].len < console_readable_len THEN rd[c].len ELSE console_readable_len
        lslice1 == SIZE - con.r
        over == ~(con.r < con.w) /\ len < lslice1
    IN /\ rd[c].pc = "copy"
       /\ rd' = [rd EXCEPT ![c].pc = "done", ![c].len = len,
                           ![c].got = [n \in 1..(IF over THEN lslice1 ELSE len) |->
                                          con.buf[(con.r + n - 1) % SIZE]]]
       /\ codd' = IF over THEN codd \cup {"wild"} ELSE codd
       /\ UNCHANGED <<con, todo, keys, line, writers, thr>>

ConDone(c) ==
    /\ rd[c].pc = "done"
    /\ con' = [con EXCEPT !.r = (@ + rd[c].len) % SIZE, !.lock = Nobody]
    /\ line' = IF rd[c].len <= Len(line) THEN SubSeq(line, rd[c].len + 1, Len(line)) ELSE <<>>
    /\ rd' = [rd EXCEPT ![c] = CIdle(@.reads)]
    /\ UNCHANGED <<todo, keys, writers, thr, codd>>
-----------------------------------------------------------------------------
(* uart_write of a text of TX + 1 bytes, so of two turns. The n-th byte of *)
(* the text of t is <<t, n>>.                                              *)
console_write(t) ==
    /\ wr[t].pc = "idle" /\ wr[t].lines > 0
    /\ wr' = [wr EXCEPT ![t] = [pc |-> "start", lines |-> @.lines - 1, len |-> TX + 1, size |-> 0, i |-> 0]]
    /\ UNCHANGED <<readers, tx, txbuf, out, thr, codd>>

(* The next piece of the text is copied to the shared buffer.              *)
Turn(t) ==
    LET size == IF wr[t].len < TX THEN wr[t].len ELSE TX
        from == TX + 1 - wr[t].len
        others == {u \in CWriter \ {t} : wr[u].pc \in {"asleep", "get"}}
    IN /\ \/ wr[t].pc = "start" /\ tx = Nobody
          \/ wr[t].pc = "send" /\ wr[t].i = wr[t].size /\ wr[t].len > 0
       /\ tx' = t
       /\ txbuf' = [n \in DOMAIN txbuf |-> IF n < size THEN <<t, from + n>> ELSE txbuf[n]]
       /\ wr' = [wr EXCEPT ![t].pc = "send", ![t].size = size, ![t].i = 0, ![t].len = @ - size]
       /\ codd' = IF others # {} THEN codd \cup {"shared"} ELSE codd
       /\ UNCHANGED <<readers, out, thr>>

(* Slip in Send: the transmitter is not waited for.                        *)
Blind(t) ==
    /\ wr[t].pc = "send" /\ wr[t].i < wr[t].size
    /\ out' = IF thr THEN [out EXCEPT ![t] = Append(@, txbuf[wr[t].i])] ELSE out
    /\ thr' = FALSE
    /\ wr' = [wr EXCEPT ![t].i = @ + 1]
    /\ UNCHANGED <<readers, tx, txbuf, codd>>

Send(t) ==
    /\ wr[t].pc = "send" /\ wr[t].i < wr[t].size /\ thr
    /\ out' = [out EXCEPT ![t] = Append(@, txbuf[wr[t].i])]
    /\ thr' = FALSE
    /\ wr' = [wr EXCEPT ![t].i = @ + 1]
    /\ UNCHANGED <<readers, tx, txbuf, codd>>

(* sleep on UART0 with tx given up: the other calls may go on.             *)
SendSleep(t) ==
    /\ wr[t].pc = "send" /\ wr[t].i < wr[t].size /\ ~thr
    /\ tx' = Nobody
    /\ wr' = [wr EXCEPT ![t].pc = "asleep"]
    /\ UNCHANGED <<readers, txbuf, out, thr, codd>>

SendAgain(t) ==
    /\ wr[t].pc = "get" /\ tx = Nobody
    /\ tx' = t
    /\ wr' = [wr EXCEPT ![t].pc = "send"]
    /\ UNCHANGED <<readers, txbuf, out, thr, codd>>

SendDone(t) ==
    /\ wr[t].pc = "send" /\ wr[t].i = wr[t].size /\ wr[t].len = 0
    /\ tx' = Nobody
    /\ wr' = [wr EXCEPT ![t].pc = "idle"]
    /\ UNCHANGED <<readers, txbuf, out, thr, codd>>

(* The UART has sent a byte.                                               *)
Sent == ~thr /\ thr' = TRUE /\ UNCHANGED <<readers, writers, codd>>
-----------------------------------------------------------------------------
ConRead(c) ==
    \/ \E len \in Ask : console_read(c, len)
    \/ ConTest(c) \/ ConCopy(c) \/ ConDone(c)
ConWrite(t) ==
    \/ console_write(t)
    \/ Turn(t) \/ Send(t) \/ SendSleep(t) \/ SendAgain(t) \/ SendDone(t)

CNext ==
    /\ ~Wild
    /\ \/ do_uart_irq \/ HandlerPut \/ HandlerClean \/ HandlerWake \/ Sent
       \/ \E c \in CReader : ConRead(c)
       \/ \E t \in CWriter : ConWrite(t)

CSpec == CInit /\ [][CNext]_cvars
-----------------------------------------------------------------------------
CUses(used) == codd \cap used # {}

(* The ring holds the line as it was edited: what lies between r and w is  *)
(* what the keys leave to be read, and a read copies a first part of it    *)
(* that is not empty. Excepted are an erase across the start of the buffer *)
(* that takes the end of a line, a clean_console while a reader holds      *)
(* con.lock, and a buffer that was overrun.                                *)
LineKept ==
    \/ CUses({"edge", "race", "wild"})
    \/ /\ line = [n \in 1..console_readable_len |-> con.buf[(con.r + n - 1) % SIZE]]
       /\ \A c \in CReader : rd[c].pc = "done" =>
            /\ Len(rd[c].got) \in 1..Len(line)
            /\ rd[c].got = SubSeq(line, 1, Len(rd[c].got))

(* No reader sleeps while a whole line waits, unless the handler is on its *)
(* way to wake it: console_putc has given up con.lock before wakeup.       *)
ReadersWoken ==
    \A c \in CReader :
        rd[c].pc = "asleep" =>
            \/ \E k \in DOMAIN todo : todo[k] = "wakeup"
            \/ \A n \in 0..(console_readable_len - 1) :
                  con.buf[(con.r + n) % SIZE] \notin {"NL", "CTRL_D"}

(* What a task wrote is what went down the line for it, each byte once and *)
(* in its order, also when it slept half-way and echoes came in between,   *)
(* unless another task filled the shared buffer while it slept.            *)
OutputIntact ==
    \/ CUses({"shared"})
    \/ \A t \in CWriter :
          /\ out[t] = [n \in 1..Len(out[t]) |-> <<t, (n - 1) % (TX + 1)>>]
          /\ wr[t].pc = "idle" => Len(out[t]) % (TX + 1) = 0
=============================================================================
