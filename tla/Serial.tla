------------------------------- MODULE Serial -------------------------------
(***************************************************************************)
(* The serial console, kernel/arch/x64/serial.c, with the UARTs it drives, *)
(* and the macros of generic/debug.h that stop the kernel with a message.  *)
(*                                                                         *)
(* serial_init sets the ports up one after the other: com_port_setup puts  *)
(* the UART in loopback mode, sends a test byte and reads the data register*)
(* at once.  The first port that answers becomes the console.  The driver  *)
(* is one thread that polls; a UART works in its own time: it moves the    *)
(* byte it was given to the line (or to its own receiver, in loopback      *)
(* mode), and takes in what arrives on the line.                           *)
(*                                                                         *)
(* Baud rate, word length and modem lines are left out.  A UART is a 16550:*)
(* two queues, cleared by the write of 0xc7.  A byte counts as sent once   *)
(* it is in the shift register.                                            *)
(***************************************************************************)
EXTENDS Naturals, Sequences, SequencesExt

CONSTANTS
  COM_PORT_COUNT,   \* ports that serial_init tries, in order
  Byte,             \* what may arrive on a line, or be left in a data register
  TEST,             \* 0xc4
  FLOATING,         \* 0xff, read where there is no UART
  NUL,              \* what com_read returns for a port that is not READY
  Message,          \* what clients pass to com_sends
  Delimiter,        \* what they pass to com_reads
  Detected(_),      \* the message of serial_init about a port
  Initialised,      \* its last message
  Report(_),        \* the message of TRACE about a failure
  Fifo,             \* length of a UART's queues
  MaxArrivals,      \* bound: bytes that arrive, over all lines
  MaxCalls,         \* bound: calls of com_sends and com_reads
  MaxRead           \* bound: bytes read from a port that is not READY

Port == 1 .. COM_PORT_COUNT
NULL == 0

(* Everything that is ever printed. *)
Text == Message \cup {Initialised, Report("error"), Report("nmi")}
          \cup {Detected(p) : p \in Port}

ASSUME SerialAssumption ==
  /\ {COM_PORT_COUNT, Fifo} \subseteq Nat \ {0}
  /\ {MaxArrivals, MaxCalls, MaxRead} \subseteq Nat
  /\ Delimiter \subseteq Byte
  /\ FLOATING # TEST
  /\ \A s \in Text : s \in Seq(Range(s))

VARIABLES
  status,             \* the driver's: status of each port,
  primary_com_port,   \*   the console, or NULL
  thread,             \* where the only thread is (at), the port serial_init is
                      \*   at (i), the port printed to or read from (io), what
                      \*   is still to be sent (text), com_reads' delimiter
  failure,            \* what has stopped the kernel
  uart,               \* for each port: is there a UART (attached), its mode
                      \*   (loopback) and queues (tx, rx)
  line,               \* for each port: what has come in, and gone out
  sent, got, calls    \* history: bytes passed to com_send, bytes com_read
                      \*   returned, calls made by clients

ports == <<status, primary_com_port>>
history == <<sent, got, calls>>
serialVars == <<ports, thread, failure, uart, line, history>>

at == thread.at
io == thread.io
-----------------------------------------------------------------------------
(***************************************************************************)
(* The registers of a UART.  As elsewhere, a definition whose name has an  *)
(* underscore and a word after it is a plausible mistake in the one it is  *)
(* named after, and no specification uses it.                              *)
(***************************************************************************)

Enqueue(queue, b) == IF Len(queue) < Fifo THEN Append(queue, b) ELSE queue

(* outb of a byte to the data register. *)
Written(u, b) == IF u.attached THEN [u EXCEPT !.tx = Enqueue(@, b)] ELSE u

(* inb of the data register: what it may read, and what it leaves.  With   *)
(* nothing received the register holds some earlier byte.                  *)
DataRead(u) ==
  IF ~ u.attached THEN {FLOATING}
  ELSE IF u.rx = <<>> THEN Byte
  ELSE {Head(u.rx)}

Taken(u) == IF u.rx = <<>> THEN u ELSE [u EXCEPT !.rx = Tail(@)]

InLoopback(u, on) == [u EXCEPT !.loopback = on /\ u.attached]

(* Bits THRE and DR of the line status register. *)
can_send_Always(p) == TRUE
can_send_DataReady(p) == uart[p].rx # <<>>
can_send(p) == uart[p].tx = <<>>
can_read_Always(p) == TRUE
can_read(p) == uart[p].rx # <<>>

(* The UART passes on the byte it was given. *)
Transmit(p) ==
  LET b == Head(uart[p].tx)
      rest == [uart EXCEPT ![p].tx = Tail(@)]
  IN  /\ uart[p].tx # <<>>
      /\ IF uart[p].loopback
         THEN uart' = [rest EXCEPT ![p].rx = Enqueue(@, b)] /\ UNCHANGED line
         ELSE uart' = rest /\ line' = [line EXCEPT ![p].out = Append(@, b)]
      /\ UNCHANGED <<ports, thread, failure, history>>

Arrivals == FoldFunction(LAMBDA l, n : Len(l.in) + n, 0, line)

(* A byte arrives on the line; loopback mode cuts the receiver off.        *)
Arrive(p, b) ==
  /\ uart[p].attached /\ ~ uart[p].loopback
  /\ Arrivals < MaxArrivals
  /\ line' = [line EXCEPT ![p].in = Append(@, b)]
  /\ uart' = [uart EXCEPT ![p].rx = Enqueue(@, b)]
  /\ UNCHANGED <<ports, thread, failure, history>>
-----------------------------------------------------------------------------
(***************************************************************************)
(* serial_init and com_port_setup.                                         *)
(***************************************************************************)

(* Line parameters, queues cleared, normal mode. *)
Program ==
  /\ at = "setup"
  /\ uart' = [uart EXCEPT ![thread.i] =
                InLoopback([@ EXCEPT !.tx = <<>>, !.rx = <<>>], FALSE)]
  /\ thread' = [thread EXCEPT !.at = "test"]
  /\ UNCHANGED <<ports, failure, line, history>>

(* Loopback mode, and the test byte: nothing can come in between. *)
SendTest ==
  /\ at = "test"
  /\ uart' = [uart EXCEPT ![thread.i] = Written(InLoopback(@, TRUE), TEST)]
  /\ thread' = [thread EXCEPT !.at = "check"]
  /\ UNCHANGED <<ports, failure, line, history>>

(* serial_init after port i: the next one, the last message, or hlt. *)
NextPort ==
  LET more == thread.i < COM_PORT_COUNT
  IN  thread' = [thread EXCEPT
        !.i = @ + 1,
        !.at = IF more THEN "setup"
               ELSE IF primary_com_port = NULL THEN "halted" ELSE "report",
        !.text = IF more THEN <<>> ELSE Initialised]

(* Something else was read: BROKEN, and still in loopback mode. *)
TestFails ==
  /\ at = "check"
  /\ \E b \in DataRead(uart[thread.i]) : b # TEST
  /\ uart' = [uart EXCEPT ![thread.i] = Taken(@)]
  /\ status' = [status EXCEPT ![thread.i] = "BROKEN"]
  /\ NextPort
  /\ UNCHANGED <<primary_com_port, failure, line, history>>

TestPasses ==
  /\ at = "check"
  /\ TEST \in DataRead(uart[thread.i])
  /\ uart' = [uart EXCEPT ![thread.i] = Taken(@)]
  /\ status' = [status EXCEPT ![thread.i] = "READY"]
  /\ thread' = [thread EXCEPT !.at = "loopback_off"]
  /\ UNCHANGED <<primary_com_port, failure, line, history>>

(* The thread has come back from a call: its arguments are gone. *)
Returned(where) ==
  [thread EXCEPT !.at = where, !.io = NULL, !.text = <<>>, !.delim = NUL]

(* Back in serial_init: the first port that works is the console, and      *)
(* printk reports the port there.                                          *)
PortWorks ==
  /\ primary_com_port' = IF primary_com_port = NULL THEN thread.i ELSE primary_com_port
  /\ thread' = [thread EXCEPT !.at = "report", !.text = Detected(thread.i),
                              !.io = primary_com_port']
  /\ UNCHANGED <<status, failure, line, history>>

LoopbackOff_Left == at = "loopback_off" /\ PortWorks /\ UNCHANGED uart

LoopbackOff ==
  /\ at = "loopback_off"
  /\ uart' = [uart EXCEPT ![thread.i] = InLoopback(@, FALSE)]
  /\ PortWorks

(* printk returns in serial_init's loop, or after it. *)
Reported_Unbounded ==
  at = "report" /\ thread.text = <<>> /\ NextPort
    /\ UNCHANGED <<ports, failure, uart, line, history>>

Reported ==
  /\ at = "report"
  /\ thread.text = <<>>
  /\ IF thread.i <= COM_PORT_COUNT
     THEN NextPort
     ELSE thread' = Returned("idle")
  /\ UNCHANGED <<ports, failure, uart, line, history>>

-----------------------------------------------------------------------------
(***************************************************************************)
(* com_send, com_read and their callers.                                   *)
(***************************************************************************)

(* com_send: waits for the transmitter, unless the port is not READY. *)
ComSend(p, c) ==
  IF status[p] = "READY"
  THEN /\ can_send(p)
       /\ uart' = [uart EXCEPT ![p] = Written(@, c)]
       /\ sent' = [sent EXCEPT ![p] = Append(@, c)]
  ELSE UNCHANGED <<uart, sent>>

(* com_sends, and printk on the console: one character after the other. *)
SendChar ==
  /\ at \in {"report", "print"}
  /\ thread.text # <<>>
  /\ ComSend(io, Head(thread.text))
  /\ thread' = [thread EXCEPT !.text = Tail(@)]
  /\ UNCHANGED <<ports, failure, line, got, calls>>

(* com_sends returns, or printk where TRACE called it: for (;;) follows.  *)
SendDone_Returns ==
  /\ at = "print"
  /\ thread.text = <<>>
  /\ thread' = Returned("idle")
  /\ UNCHANGED <<ports, failure, uart, line, history>>

SendDone ==
  /\ at = "print"
  /\ thread.text = <<>>
  /\ thread' = Returned(IF failure = "none" THEN "idle" ELSE "stopped")
  /\ UNCHANGED <<ports, failure, uart, line, history>>

ClientCall ==
  /\ at = "idle"
  /\ calls < MaxCalls
  /\ calls' = calls + 1
  /\ UNCHANGED <<ports, failure, uart, line, sent, got>>

com_sends(p, s) ==
  /\ ClientCall
  /\ thread' = [thread EXCEPT !.at = "print", !.io = p, !.text = s]

com_reads(p, d) ==
  /\ ClientCall
  /\ thread' = [thread EXCEPT !.at = "read", !.io = p, !.delim = d]

(* com_read returned c: it ends com_reads, or goes to the buffer. *)
Take(c) ==
  /\ got' = [got EXCEPT ![io] = Append(@, c)]
  /\ thread' = IF c = thread.delim THEN Returned("idle") ELSE thread
  /\ UNCHANGED <<ports, failure, line, sent, calls>>

(* while ((c = com_read(port)) != delim) *buff++ = com_read(port); *)
ReadChar_Twice ==
  LET rx == uart[io].rx
      stop == Head(rx) = thread.delim
  IN  /\ at = "read"
      /\ status[io] = "READY"
      /\ can_read(io)
      /\ stop \/ Len(rx) > 1
      /\ uart' = [uart EXCEPT ![io].rx = IF stop THEN Tail(rx) ELSE Tail(Tail(rx))]
      /\ Take(IF stop THEN thread.delim ELSE NUL)

ReadChar ==
  /\ at = "read"
  /\ status[io] = "READY"
  /\ can_read(io)
  /\ \E c \in DataRead(uart[io]) : Take(c)
  /\ uart' = [uart EXCEPT ![io] = Taken(@)]

(* com_read does not wait for a port that is not READY. *)
ReadNothing ==
  /\ at = "read"
  /\ status[io] # "READY"
  /\ Len(got[io]) < MaxRead
  /\ Take(NUL)
  /\ UNCHANGED uart
-----------------------------------------------------------------------------
(***************************************************************************)
(* debug.h: ASSERT and ERROR.                                              *)
(***************************************************************************)

(* TRACE, wherever the thread was: it never goes back there. *)
Trace(kind) ==
  /\ failure' = kind
  /\ thread' = [thread EXCEPT !.at = "print", !.io = primary_com_port,
                              !.text = Report(kind), !.delim = NUL]
  /\ UNCHANGED <<ports, uart, line, history>>

(* An ASSERT, or the handler of an exception: once serial_init is done.    *)
Error ==
  /\ at \in {"idle", "print", "read"}
  /\ failure = "none"
  /\ Trace("error")

(* isr_NMI: in the middle of another report, too, or after it.  It does    *)
(* not return, so the CPU takes no second NMI.                             *)
NonMaskable ==
  /\ at \in {"idle", "print", "read", "stopped"}
  /\ failure # "nmi"
  /\ Trace("nmi")
-----------------------------------------------------------------------------
SerialStart ==
  /\ status = [p \in Port |-> "BUSY"]
  /\ primary_com_port = NULL
  /\ thread = [at |-> "setup", i |-> 1, io |-> NULL, text |-> <<>>, delim |-> NUL]
  /\ failure = "none"
  /\ uart \in [Port -> [attached : BOOLEAN, loopback : {FALSE}, tx : {<<>>}, rx : {<<>>}]]
  /\ line = [p \in Port |-> [in |-> <<>>, out |-> <<>>]]
  /\ sent = [p \in Port |-> <<>>]
  /\ got = [p \in Port |-> <<>>]
  /\ calls = 0

Driver ==
  \/ Program
  \/ SendTest
  \/ TestFails
  \/ TestPasses
  \/ LoopbackOff
  \/ Reported
  \/ SendChar
  \/ SendDone
  \/ ReadChar
  \/ ReadNothing

Client ==
  \/ \E p \in Port, s \in Message : com_sends(p, s)
  \/ \E p \in Port, d \in Delimiter : com_reads(p, d)

SerialNext ==
  \/ Driver
  \/ Client
  \/ Error
  \/ NonMaskable
  \/ \E p \in Port : Transmit(p)
  \/ \E p \in Port, b \in Byte : Arrive(p, b)

(* The only thread runs, and a transmitter that has a byte sends it. *)
SerialSpec ==
  /\ SerialStart
  /\ [][SerialNext]_serialVars
  /\ WF_serialVars(Driver)
  /\ \A p \in Port : WF_serialVars(Transmit(p))

-----------------------------------------------------------------------------
(***************************************************************************)
(* Properties.                                                             *)
(***************************************************************************)

Bytes == Byte \cup {TEST, FLOATING, NUL} \cup UNION {Range(s) : s \in Text}

Queues == Seq(Bytes)

SerialTypeOK ==
  /\ status \in [Port -> {"READY", "BROKEN", "BUSY"}]
  /\ primary_com_port \in Port \cup {NULL}
  /\ thread \in [at : {"setup", "test", "check", "loopback_off", "report", "print", "read",
                      "idle", "halted", "stopped"},
                 i : 1 .. COM_PORT_COUNT + 1,
                 io : Port \cup {NULL},
                 text : Queues,
                 delim : Delimiter \cup {NUL}]
  /\ failure \in {"none", "error", "nmi"}
  /\ uart \in [Port -> [attached : BOOLEAN, loopback : BOOLEAN, tx : Queues, rx : Queues]]
  /\ line \in [Port -> [in : Queues, out : Queues]]
  /\ sent \in [Port -> Queues] /\ got \in [Port -> Queues]

(* No character that com_send accepts is lost, repeated or overtaken on    *)
(* its way to the line, not even those of a message that a failure breaks  *)
(* off, and a port that is not READY puts nothing there.  The test byte    *)
(* itself can get out, in front of everything, if the port passed the test *)
(* on a byte that was there before.                                        *)
OutputComplete ==
  \A p \in Port :
    IF status[p] = "READY"
    THEN line[p].out \o uart[p].tx \in {sent[p], <<TEST>> \o sent[p]}
    ELSE line[p].out = <<>>

(* The elements of s, but for the one at x, are elements of t, in the      *)
(* order of t: f tells which.                                              *)
InOrder(s, x, t) ==
  \E f \in [DOMAIN s \ {x} -> DOMAIN t] :
    /\ \A k \in DOMAIN s \ {x} : s[k] = t[f[k]]
    /\ \A j, k \in DOMAIN s \ {x} : j < k => f[j] < f[k]

(* s has nothing else than t, the test byte at most once excepted. *)
Received(s, t) == \E x \in {0} \cup {k \in DOMAIN s : s[k] = TEST} : InOrder(s, x, t)

(* com_read returns bytes of the line in the order they arrived, each at   *)
(* most once, although a full queue may lose some; and the test byte at    *)
(* most once.                                                              *)
InputInOrder ==
  \A p \in Port : status[p] = "READY" => Received(got[p], line[p].in)

(* The console is a port that passed the test, the first one that did, and *)
(* is connected to its line: neither printk nor an ASSERT talks to a UART  *)
(* that listens only to itself.                                            *)
ConsoleConnected ==
  primary_com_port # NULL =>
    /\ status[primary_com_port] = "READY"
    /\ ~ uart[primary_com_port].loopback
    /\ \A p \in Port : p < primary_com_port => status[p] = "BROKEN"

(* From the failure on, what has gone out on the console, is in its UART   *)
(* and is still to be printed ends with the report, all of it: nothing that*)
(* the kernel was printing, or on which port, gets into it or behind it,   *)
(* and nothing else happens.                                               *)
Ahead(p) ==
  line[p].out \o uart[p].tx \o IF at = "print" THEN thread.text ELSE <<>>

ReportLast ==
  failure # "none" =>
    /\ at \in {"print", "stopped"}
    /\ primary_com_port # NULL
    /\ IsSuffix(Report(failure), Ahead(primary_com_port))

(* serial_init ends: it halts, or gets all its messages out. *)
SerialSettles == <>(at \in {"halted", "idle"})

(* com_reads on a READY port returns once its delimiter has been received, *)
(* unless the kernel fails.                                                *)
ReadsReturn ==
  \A p \in Port, d \in Delimiter :
    at = "read" /\ io = p /\ status[p] = "READY" /\ thread.delim = d /\ Contains(uart[p].rx, d)
      ~> at = "idle" \/ failure # "none"

(* Whatever the kernel was doing with whichever port when an ASSERT or an  *)
(* ERROR stopped it, its message gets out on the console whole and remains *)
(* the last thing there, for the kernel does nothing more; so does that of *)
(* an NMI in the middle of another report.                                 *)
FailureReported ==
  <>[](failure # "none" =>
         at = "stopped" /\ IsSuffix(Report(failure), line[primary_com_port].out))

(* serial.h says of com_port_setup: "If the com port is setup without a    *)
(* problem, its status will be set to COM_PORT_STATUS_READY".              *)
WorkingPortReady == \A p \in Port : uart[p].attached => status[p] # "BROKEN"
==============================================================================
