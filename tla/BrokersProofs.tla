---------------------------- MODULE BrokersProofs ----------------------------
(***************************************************************************)
(* What Brokers promises for any runs, connections, messages and bounds:   *)
(* the threads of one run do not mix their lines, and what a line is about *)
(* went over its connection.                                               *)
(***************************************************************************)
EXTENDS Brokers, SequenceTheorems, TLAPS

Stages == {"closed", "read", "note", "start", "end", "forward", "await", "answer", "over"}
NoExchange == Exchange(Nothing, Nothing)
Wires == {Nothing} \cup {x.request : x \in Exchanges} \cup {x.reply : x \in Exchanges}
             \cup {Verdict(word) : word \in {"allow", "refuse", "error"}}
Connection ==
    [log : Logs, run : Runs \cup {NoRun}, at : Stages, carries : Wires,
     exchange : Exchanges \cup {NoExchange}, dir : {">", "<"}, left : Nat]
Pieces == [run : Runs \cup {NoRun}, conn : Conns, part : {"start", "end"}, sent : Wires]

TypeInv ==
    /\ up \in [Runs -> BOOLEAN]
    /\ conn \in [Conns -> Connection]
    /\ holder \in [Runs -> [Logs -> Conns \cup {NoConn}]]
    /\ log \in [Logs -> Seq(Pieces)]
    /\ failures \in Nat

-----------------------------------------------------------------------------
(* Types, and what each step does to its connection.                       *)

LEMMA ClosedType == Closed \in Connection
<1>1. Nothing \in Wires /\ "ssh" \in Logs
  BY DEF Wires, Logs
<1> QED
  BY <1>1 DEF Closed, Connection, Stages, NoExchange

Others(c) == \A d \in Conns \ {c} : conn'[d] = conn[d]

LEMMA ConnHolds ==
    ASSUME TypeInv, NEW c \in Conns, NEW m \in Connection, conn' = [conn EXCEPT ![c] = m]
    PROVE  conn' \in [Conns -> Connection] /\ conn'[c] = m /\ Others(c)
  BY DEF TypeInv, Others

(* It goes on with what it has.                                            *)
LEMMA Goes ==
    ASSUME TypeInv, NEW c \in Conns, NEW stage \in Stages, Goto(c, stage)
    PROVE  /\ conn' \in [Conns -> Connection] /\ Others(c)
           /\ conn'[c].at = stage /\ conn'[c].run = conn[c].run /\ conn'[c].log = conn[c].log
           /\ conn'[c].carries = conn[c].carries /\ conn'[c].exchange = conn[c].exchange
  BY ZenonT(40) DEF TypeInv, Connection, Others, Goto

(* It gets a message to log.                                               *)
LEMMA Connects ==
    ASSUME TypeInv, NEW c \in Conns, Connect(c)
    PROVE  /\ conn' \in [Conns -> Connection] /\ Others(c)
           /\ conn'[c].at = "read" /\ conn'[c].run \in Runs /\ conn'[c].log = "ssh"
<1>1. PICK r \in Runs :
          conn' = [conn EXCEPT ![c] =
              [Closed EXCEPT !.run = r, !.at = "read", !.left = MaxRequests]]
  BY DEF Connect
<1> DEFINE m == [Closed EXCEPT !.run = r, !.at = "read", !.left = MaxRequests]
<1>2. m \in Connection
  BY ClosedType, BrokersAssumption DEF Connection, Stages
<1>3. m.at = "read" /\ m.run = r /\ m.log = "ssh"
  BY DEF Closed
<1>4. conn' = [conn EXCEPT ![c] = m]
  BY <1>1
<1> HIDE DEF m
<1> QED
  BY <1>2, <1>3, <1>4, ConnHolds

LEMMA Reads ==
    ASSUME TypeInv, NEW c \in Conns, ReadRequest(c)
    PROVE  /\ conn' \in [Conns -> Connection] /\ Others(c)
           /\ conn'[c].at = "note" /\ conn'[c].run = conn[c].run /\ conn'[c].log = conn[c].log
           /\ conn'[c].exchange \in Exchanges
           /\ conn'[c].carries = conn'[c].exchange.request
<1>1. conn \in [Conns -> Connection] /\ conn[c] \in Connection
  BY DEF TypeInv
<1>2. PICK x \in Exchanges :
          conn' = [conn EXCEPT ![c].exchange = x, ![c].carries = x.request, ![c].dir = ">",
                               ![c].left = @ - 1, ![c].at = "note"]
  BY DEF ReadRequest
<1> DEFINE m == [conn[c] EXCEPT !.exchange = x, !.carries = x.request, !.dir = ">",
                                !.left = @ - 1, !.at = "note"]
<1>3. conn' = [conn EXCEPT ![c] = m]
  BY <1>1, <1>2
<1>4. conn[c].left - 1 \in Nat
  BY <1>1 DEF ReadRequest, Connection
<1>5. x.request \in Wires
  BY DEF Wires
<1>6. ASSUME NEW w \in Wires, NEW n \in Nat
      PROVE  [conn[c] EXCEPT !.exchange = x, !.carries = w, !.dir = ">", !.left = n,
                             !.at = "note"] \in Connection
  BY <1>1 DEF Connection, Stages
<1>7. m \in Connection
  BY <1>4, <1>5, <1>6
<1>8. /\ m.at = "note" /\ m.run = conn[c].run /\ m.log = conn[c].log
      /\ m.exchange = x /\ m.carries = x.request
  BY <1>1 DEF Connection
<1> HIDE DEF m
<1> QED
  BY <1>3, <1>7, <1>8, ConnHolds

LEMMA AgentSays ==
    ASSUME TypeInv, NEW c \in Conns, AgentAnswers(c)
    PROVE  /\ conn' \in [Conns -> Connection] /\ Others(c)
           /\ conn'[c].run = conn[c].run /\ conn'[c].log = conn[c].log
           /\ \/ conn'[c].at = "over"
              \/ /\ conn'[c].at = "note" /\ conn'[c].exchange = conn[c].exchange
                 /\ conn'[c].carries = conn[c].exchange.reply
<1>1. conn \in [Conns -> Connection] /\ conn[c] \in Connection
  BY DEF TypeInv
<1>2. CASE Over(c)
  BY <1>2, Goes DEF Over, Stages
<1>3. CASE conn' = [conn EXCEPT ![c].carries = conn[c].exchange.reply, ![c].dir = "<",
                                ![c].at = "note"]
  <2> DEFINE m == [conn[c] EXCEPT !.carries = conn[c].exchange.reply, !.dir = "<",
                                  !.at = "note"]
  <2>1. conn' = [conn EXCEPT ![c] = m]
    BY <1>1, <1>3
  <2>2. conn[c].exchange.reply \in Wires
    BY <1>1 DEF Connection, Wires, NoExchange, Exchange
  <2>3. /\ m \in Connection
        /\ m.at = "note" /\ m.run = conn[c].run /\ m.log = conn[c].log
        /\ m.exchange = conn[c].exchange /\ m.carries = conn[c].exchange.reply
    BY <1>1, <2>2 DEF Connection, Stages
  <2> HIDE DEF m
  <2> QED
    BY <2>1, <2>3, ConnHolds
<1> QED
  BY <1>2, <1>3 DEF AgentAnswers

LEMMA ClientHears ==
    ASSUME TypeInv, NEW c \in Conns, AnswerClient(c)
    PROVE  /\ conn' \in [Conns -> Connection] /\ Others(c)
           /\ conn'[c].at = "read" /\ conn'[c].run = conn[c].run /\ conn'[c].log = conn[c].log
<1>1. conn \in [Conns -> Connection] /\ conn[c] \in Connection /\ Nothing \in Wires
  BY DEF TypeInv, Wires
<1> DEFINE m == [conn[c] EXCEPT !.at = "read", !.carries = Nothing, !.exchange = NoExchange]
<1>2. conn' = [conn EXCEPT ![c] = m]
  <2>1. Closed.exchange = NoExchange
    BY DEF Closed, NoExchange
  <2> QED
    BY <1>1, <2>1 DEF AnswerClient
<1>3. m \in Connection /\ m.at = "read" /\ m.run = conn[c].run /\ m.log = conn[c].log
  BY <1>1 DEF Connection, Stages
<1> HIDE DEF m
<1> QED
  BY <1>2, <1>3, ConnHolds

LEMMA Asks ==
    ASSUME TypeInv, NEW c \in Conns, AskOpen(c)
    PROVE  /\ conn' \in [Conns -> Connection] /\ Others(c)
           /\ conn'[c].at = "note" /\ conn'[c].run \in Runs /\ conn'[c].log = "open"
<1>1. PICK r \in Runs, word \in {"allow", "refuse", "error"} :
          conn' = [conn EXCEPT ![c] =
              [Closed EXCEPT !.log = "open", !.run = r, !.at = "note", !.dir = "<",
                             !.carries = Verdict(word)]]
  BY DEF AskOpen
<1> DEFINE m == [Closed EXCEPT !.log = "open", !.run = r, !.at = "note", !.dir = "<",
                               !.carries = Verdict(word)]
<1>2. Verdict(word) \in Wires /\ "open" \in Logs
  BY DEF Wires, Logs
<1>3. m \in Connection
  <2>1. ASSUME NEW w \in Wires
        PROVE  [Closed EXCEPT !.log = "open", !.run = r, !.at = "note", !.dir = "<",
                              !.carries = w] \in Connection
    BY <1>2, ClosedType DEF Connection, Stages
  <2> QED
    BY <1>2, <2>1
<1>4. m.at = "note" /\ m.run = r /\ m.log = "open"
  BY DEF Closed
<1>5. conn' = [conn EXCEPT ![c] = m]
  BY <1>1
<1> HIDE DEF m
<1> QED
  BY <1>3, <1>4, <1>5, ConnHolds

(* A piece lands at the end of its log.                                    *)
LEMMA Writes ==
    ASSUME TypeInv, NEW c \in Conns, NEW part \in {"start", "end"}, Write(c, part)
    PROVE  LET k == conn[c].log IN
           /\ log' \in [Logs -> Seq(Pieces)] /\ k \in Logs
           /\ \A l \in Logs \ {k} : log'[l] = log[l]
           /\ Len(log'[k]) = Len(log[k]) + 1 /\ Len(log[k]) \in Nat
           /\ \A i \in DOMAIN log[k] : i \in DOMAIN log'[k] /\ log'[k][i] = log[k][i]
           /\ log'[k][Len(log[k]) + 1] = Piece(c, part)
<1> DEFINE k == conn[c].log
           piece == Piece(c, part)
<1>1. k \in Logs /\ piece \in Pieces
  BY DEF TypeInv, Connection, Piece, Pieces
<1>2. log' = [log EXCEPT ![k] = Append(@, piece)] /\ log \in [Logs -> Seq(Pieces)]
  BY DEF Write, TypeInv
<1> HIDE DEF k, piece
<1>3. ASSUME NEW s \in Seq(Pieces)
      PROVE  /\ Append(s, piece) \in Seq(Pieces) /\ Len(s) \in Nat
             /\ Len(Append(s, piece)) = Len(s) + 1
             /\ \A i \in DOMAIN s : i \in DOMAIN Append(s, piece) /\ Append(s, piece)[i] = s[i]
             /\ Append(s, piece)[Len(s) + 1] = piece
  BY <1>1
<1>4. /\ log' \in [Logs -> Seq(Pieces)] /\ log'[k] = Append(log[k], piece)
      /\ \A l \in Logs \ {k} : log'[l] = log[l]
  BY <1>1, <1>2, <1>3
<1>5. log[k] \in Seq(Pieces)
  BY <1>1, <1>2
<1> QED
  BY <1>1, <1>3, <1>4, <1>5 DEF k, piece

LEMMA TypeInit == Init => TypeInv
<1> SUFFICES ASSUME Init PROVE TypeInv
  OBVIOUS
<1>1. conn \in [Conns -> Connection]
  BY ClosedType DEF Init
<1>2. \A k \in Logs : log[k] \in Seq(Pieces)
  <2>1. <<>> \in Seq(Pieces)
    OBVIOUS
  <2> QED
    BY <2>1 DEF Init
<1> QED
  BY <1>1, <1>2 DEF Init, TypeInv

(* A step of a connection changes no other one.                            *)
LEMMA ConnMoves ==
    ASSUME TypeInv, NEW c \in Conns, ConnStep(c)
    PROVE  conn' \in [Conns -> Connection] /\ Others(c)
<1>1. CASE Connect(c)
  BY <1>1, Connects
<1>2. CASE ReadRequest(c)
  BY <1>2, Reads
<1>3. CASE AgentAnswers(c)
  BY <1>3, AgentSays
<1>4. CASE AnswerClient(c)
  BY <1>4, ClientHears
<1>5. CASE AskOpen(c)
  BY <1>5, Asks
<1>6. CASE NoteStep(c) \/ HangUp(c) \/ Forward(c) \/ AnswerOpen(c)
  <2>1. \E stage \in Stages : Goto(c, stage)
    BY <1>6 DEF NoteStep, LockLog, WriteStart, WriteEnd, WriteFails, HangUp, Forward,
                AnswerOpen, AfterNote, Over, Stages
  <2> QED
    BY <2>1, Goes
<1> QED
  BY <1>1, <1>2, <1>3, <1>4, <1>5, <1>6 DEF ConnStep

LEMMA Killed ==
    ASSUME TypeInv, NEW r \in Runs, KillRun(r)
    PROVE  /\ conn' \in [Conns -> Connection]
           /\ \A c \in Conns :
                  /\ conn[c].run = r => conn'[c].at = "over" /\ conn'[c].run = r
                  /\ conn[c].run # r => conn'[c] = conn[c]
<1>1. ASSUME NEW m \in Connection
      PROVE  /\ [m EXCEPT !.at = "over"] \in Connection
             /\ [m EXCEPT !.at = "over"].at = "over" /\ [m EXCEPT !.at = "over"].run = m.run
  BY DEF Connection, Stages
<1> QED
  BY <1>1 DEF KillRun, TypeInv

LEMMA TypeStep == TypeInv /\ [Next]_vars => TypeInv'
<1> SUFFICES ASSUME TypeInv, [Next]_vars PROVE TypeInv'
  OBVIOUS
<1>1. ASSUME NEW c \in Conns, ConnStep(c) PROVE TypeInv'
  <2>1. conn' \in [Conns -> Connection]
    BY <1>1, ConnMoves, SMTT(30)
  <2>2. UNCHANGED up /\ (UNCHANGED failures \/ failures' = failures + 1)
    BY <1>1, ZenonT(40) DEF ConnStep, NoteStep, LockLog, WriteStart, WriteEnd, WriteFails, HangUp, Forward,
                AnswerOpen, Connect, ReadRequest, AgentAnswers, AnswerClient, AskOpen
  <2>3. UNCHANGED log \/ \E part \in {"start", "end"} : Write(c, part)
    BY <1>1 DEF ConnStep, NoteStep, LockLog, WriteStart, WriteEnd, WriteFails, HangUp, Forward,
                AnswerOpen, Connect, ReadRequest, AgentAnswers, AnswerClient, AskOpen
  <2>4. log' \in [Logs -> Seq(Pieces)]
    BY <2>3, Writes, SMTT(30) DEF TypeInv
  <2>5. UNCHANGED holder \/ LockLog(c) \/ Unlock(c)
    BY <1>1 DEF ConnStep, NoteStep, WriteStart, WriteEnd, WriteFails, HangUp, Forward,
                AnswerOpen, Connect, ReadRequest, AgentAnswers, AnswerClient, AskOpen
  <2>6. holder' \in [Runs -> [Logs -> Conns \cup {NoConn}]]
    <3> DEFINE Holders == [Runs -> [Logs -> Conns \cup {NoConn}]]
    <3>1. ASSUME NEW h \in Holders, NEW v \in Conns \cup {NoConn}, NEW r \in Runs \cup {NoRun},
                 NEW k \in Logs
          PROVE  [h EXCEPT ![r][k] = v] \in Holders
      OBVIOUS
    <3>2. holder \in Holders /\ conn[c].run \in Runs \cup {NoRun} /\ conn[c].log \in Logs
      BY DEF TypeInv, Connection
    <3> QED
      BY <2>5, <3>1, <3>2, SMTT(30) DEF LockLog, Unlock
  <2> QED
    BY <2>1, <2>2, <2>4, <2>6 DEF TypeInv
<1>2. ASSUME NEW r \in Runs, KillRun(r) PROVE TypeInv'
  <2>1. conn' \in [Conns -> Connection]
    BY <1>2, Killed
  <2> QED
    BY <1>2, <2>1 DEF KillRun, TypeInv
<1>3. CASE UNCHANGED vars
  BY <1>3 DEF vars, TypeInv
<1> QED
  BY <1>1, <1>2, <1>3 DEF Next

LEMMA TypeHolds == Spec => []TypeInv
  BY TypeInit, TypeStep, PTL DEF Spec

-----------------------------------------------------------------------------
(* The mutex: a thread that writes has that of its run and log.            *)

Writing(c) == conn[c].at \in {"start", "end"}
Mutex(c) == holder[conn[c].run][conn[c].log]
HeldInv ==
    \A c \in Conns :
        /\ conn[c].at # "closed" => conn[c].run \in Runs
        /\ Writing(c) => Mutex(c) = c

LEMMA HeldInit == Init => HeldInv
  BY DEF Init, HeldInv, Writing, Closed

(* Of a step that changes one thread and perhaps its mutex.                *)
LEMMA HeldConn ==
    ASSUME TypeInv, HeldInv, NEW c \in Conns, Others(c),
           \/ UNCHANGED holder
           \/ /\ \E v : holder' = [holder EXCEPT ![conn[c].run][conn[c].log] = v]
              /\ Mutex(c) \in {NoConn, c},
           conn'[c].at # "closed" => conn'[c].run \in Runs,
           Writing(c)' => Mutex(c)' = c
    PROVE  HeldInv'
<1>1. ASSUME NEW d \in Conns, d # c, Writing(d)' PROVE Mutex(d)' = d
  <2>1. /\ conn'[d] = conn[d] /\ Writing(d) /\ Mutex(d) = d /\ d # NoConn
        /\ conn[d].run \in Runs /\ conn[d].log \in Logs
    BY <1>1, BrokersAssumption DEF Others, Writing, HeldInv, TypeInv, Connection
  <2>2. CASE UNCHANGED holder
    BY <2>1, <2>2 DEF Mutex
  <2>3. ASSUME NEW v, holder' = [holder EXCEPT ![conn[c].run][conn[c].log] = v],
               Mutex(c) \in {NoConn, c}
        PROVE  Mutex(d)' = d
    <3>1. conn[d].run # conn[c].run \/ conn[d].log # conn[c].log
      BY <1>1, <2>1, <2>3 DEF Mutex
    <3>2. /\ holder \in [Runs -> [Logs -> Conns \cup {NoConn}]]
          /\ holder'[conn[d].run][conn[d].log] = holder[conn[d].run][conn[d].log]
      BY <2>1, <2>3, <3>1 DEF TypeInv
    <3> QED
      BY <2>1, <3>2 DEF Mutex
  <2> QED
    BY <2>2, <2>3
<1>2. ASSUME NEW d \in Conns, d # c, conn'[d].at # "closed" PROVE conn'[d].run \in Runs
  BY <1>2 DEF Others, HeldInv
<1> QED
  BY <1>1, <1>2 DEF HeldInv

LEMMA HeldStep == TypeInv /\ HeldInv /\ [Next]_vars => HeldInv'
<1> SUFFICES ASSUME TypeInv, HeldInv, [Next]_vars PROVE HeldInv'
  OBVIOUS
<1>1. ASSUME NEW c \in Conns, ConnStep(c) PROVE HeldInv'
  <2>others. Others(c)
    BY <1>1, ConnMoves
  <2>run. conn[c].at # "closed" => conn[c].run \in Runs /\ conn[c].log \in Logs
    BY DEF HeldInv, TypeInv, Connection
  <2>1. CASE LockLog(c)
    <3>1. /\ Goto(c, "start") /\ Mutex(c) = NoConn /\ conn[c].at = "note"
          /\ holder' = [holder EXCEPT ![conn[c].run][conn[c].log] = c]
      BY <2>1 DEF LockLog, Mutex
    <3>2. conn'[c].at = "start" /\ conn'[c].run = conn[c].run /\ conn'[c].log = conn[c].log
      BY <3>1, Goes DEF Stages
    <3>3. Mutex(c)' = c
      BY <2>run, <3>1, <3>2 DEF Mutex, TypeInv
    <3> QED
      BY <2>others, <2>run, <3>1, <3>2, <3>3, HeldConn
  <2>2. CASE WriteStart(c)
    <3>1. Goto(c, "end") /\ UNCHANGED holder /\ conn[c].at = "start"
      BY <2>2 DEF WriteStart
    <3>2. conn'[c].at = "end" /\ conn'[c].run = conn[c].run /\ conn'[c].log = conn[c].log
      BY <3>1, Goes DEF Stages
    <3>3. Mutex(c)' = c
      BY <3>1, <3>2 DEF Mutex, HeldInv, Writing
    <3> QED
      BY <2>others, <2>run, <3>1, <3>2, <3>3, HeldConn
  <2>3. CASE WriteEnd(c) \/ WriteFails(c)
    <3>1. Goto(c, AfterNote(c)) /\ Unlock(c) /\ conn[c].at \in {"start", "end"}
      BY <2>3 DEF WriteEnd, WriteFails
    <3>2. AfterNote(c) \in {"forward", "answer"}
      BY DEF AfterNote
    <3>3. conn'[c].at \in {"forward", "answer"} /\ conn'[c].run = conn[c].run
      BY <3>1, <3>2, Goes DEF Stages
    <3>4. ~ Writing(c)' /\ Mutex(c) = c
      BY <3>1, <3>3 DEF HeldInv, Writing
    <3> QED
      BY <2>others, <2>run, <3>1, <3>3, <3>4, HeldConn DEF Unlock
  <2>4. ASSUME \/ Connect(c) \/ ReadRequest(c) \/ HangUp(c) \/ Forward(c) \/ AgentAnswers(c)
               \/ AnswerClient(c) \/ AskOpen(c) \/ AnswerOpen(c)
        PROVE  HeldInv'
    <3>1. UNCHANGED holder
      BY <2>4 DEF HangUp, Forward, AnswerOpen, Connect, ReadRequest, AgentAnswers,
                  AnswerClient, AskOpen
    <3>2. /\ conn'[c].at \notin {"start", "end"}
          /\ conn'[c].run \in Runs \/ (conn'[c].run = conn[c].run /\ conn[c].at # "closed")
      <4>1. CASE Connect(c) \/ AskOpen(c)
        BY <4>1, Connects, Asks, SMTT(30)
      <4>2. CASE ReadRequest(c) \/ AgentAnswers(c) \/ AnswerClient(c)
        BY <4>2, Reads, AgentSays, ClientHears DEF ReadRequest, AgentAnswers, AnswerClient
      <4>3. CASE HangUp(c) \/ Forward(c) \/ AnswerOpen(c)
        <5>1. /\ \E stage \in {"over", "await"} : Goto(c, stage)
              /\ conn[c].at # "closed"
          BY <4>3 DEF HangUp, Forward, AnswerOpen, Over
        <5> QED
          BY <5>1, Goes DEF Stages
      <4> QED
        BY <2>4, <4>1, <4>2, <4>3
    <3> QED
      BY <2>others, <2>run, <3>1, <3>2, HeldConn DEF Writing
  <2> QED
    BY <1>1, <2>1, <2>2, <2>3, <2>4 DEF ConnStep, NoteStep
<1>2. ASSUME NEW r \in Runs, KillRun(r) PROVE HeldInv'
  <2>1. ASSUME NEW c \in Conns
        PROVE  /\ conn'[c].at # "closed" => conn'[c].run \in Runs
               /\ Writing(c)' => Mutex(c)' = c
    <3>1. CASE conn[c].run = r
      BY <1>2, <3>1, Killed DEF Writing
    <3>2. CASE conn[c].run # r
      <4>1. conn'[c] = conn[c]
        BY <1>2, <3>2, Killed
      <4>2. Writing(c) => holder'[conn[c].run] = holder[conn[c].run]
        BY <1>2, <3>2 DEF KillRun, TypeInv, HeldInv, Writing
      <4> QED
        BY <4>1, <4>2 DEF HeldInv, Writing, Mutex
    <3> QED
      BY <3>1, <3>2
  <2> QED
    BY <2>1 DEF HeldInv
<1>3. CASE UNCHANGED vars
  BY <1>3 DEF vars, HeldInv, Writing, Mutex
<1> QED
  BY <1>1, <1>2, <1>3 DEF Next

-----------------------------------------------------------------------------
(* A line that was begun: its end is the next piece of its run, or the     *)
(* thread that began it is about to write that.                            *)

Awaited(k, i) == \A j \in DOMAIN log[k] : j > i => log[k][j].run # log[k][i].run
Pending(k, i) ==
    LET c == log[k][i].conn IN
    /\ conn[c].at = "end" /\ conn[c].log = k
    /\ log[k][i] = Piece(c, "start")
Begun(k, i) ==
    log[k][i].part = "start" =>
        /\ \A j \in DOMAIN log[k] :
               NextOfRun(k, i, j) => log[k][j] = [log[k][i] EXCEPT !.part = "end"]
        /\ Awaited(k, i) => Pending(k, i)

LineInv == failures = 0 => \A k \in Logs : \A i \in DOMAIN log[k] : Begun(k, i)

LEMMA LineInit == Init => LineInv
  BY DEF Init, LineInv

(* While its log does not grow, only its own thread can end a line.        *)
LEMMA BegunKept ==
    ASSUME TypeInv, NEW k \in Logs, NEW i \in DOMAIN log[k], Begun(k, i), log'[k] = log[k],
           LET c == log[k][i].conn
           IN  conn[c].at = "end" /\ conn[c].log = k => conn'[c] = conn[c]
    PROVE  Begun(k, i)'
<1>1. Awaited(k, i)' = Awaited(k, i) /\ \A j : NextOfRun(k, i, j)' = NextOfRun(k, i, j)
  BY DEF Awaited, NextOfRun
<1>2. Pending(k, i) => Pending(k, i)'
  BY DEF Pending, Piece
<1> QED
  BY <1>1, <1>2 DEF Begun

LEMMA PieceType ==
    ASSUME TypeInv, NEW k \in Logs, NEW i \in DOMAIN log[k]
    PROVE  /\ log[k] \in Seq(Pieces) /\ log[k][i] \in Pieces /\ log[k][i].conn \in Conns
           /\ DOMAIN log[k] = 1 .. Len(log[k]) /\ Len(log[k]) \in Nat
<1>1. log[k] \in Seq(Pieces)
  BY DEF TypeInv
<1>2. log[k][i] \in Pieces /\ DOMAIN log[k] = 1 .. Len(log[k]) /\ Len(log[k]) \in Nat
  BY <1>1
<1> QED
  BY <1>1, <1>2 DEF Pieces

(* The log grows: the new piece ends the line its run has begun, or begins *)
(* one where none is.                                                      *)
LEMMA LineWrite ==
    ASSUME TypeInv, HeldInv, \A k \in Logs : \A i \in DOMAIN log[k] : Begun(k, i),
           NEW c \in Conns, WriteStart(c) \/ WriteEnd(c)
    PROVE  \A k \in Logs : \A i \in DOMAIN log'[k] : Begun(k, i)'
<1>k. PICK k \in Logs : k = conn[c].log
  BY DEF TypeInv, Connection
<1>n. PICK n \in Nat : n = Len(log[k]) + 1
  BY <1>k DEF TypeInv
<1>part. PICK part \in {"start", "end"} : conn[c].at = part
  BY DEF WriteStart, WriteEnd
<1>1. Writing(c) /\ Write(c, part)
  BY <1>part DEF WriteStart, WriteEnd, Writing
<1>2. /\ log' \in [Logs -> Seq(Pieces)] /\ k \in Logs
      /\ \A l \in Logs \ {k} : log'[l] = log[l]
      /\ Len(log'[k]) = n /\ Len(log[k]) \in Nat
      /\ \A i \in DOMAIN log[k] : i \in DOMAIN log'[k] /\ log'[k][i] = log[k][i]
      /\ log'[k][n] = Piece(c, part)
  BY <1>k, <1>n, <1>1, Writes
<1>3. /\ DOMAIN log[k] = 1 .. Len(log[k]) /\ DOMAIN log'[k] = 1 .. n
      /\ n = Len(log[k]) + 1 /\ n \in Nat
  <2>1. log'[k] \in Seq(Pieces) /\ log[k] \in Seq(Pieces)
    BY <1>2 DEF TypeInv
  <2> QED
    BY <1>n, <1>2, <2>1
<1>4. /\ Others(c) /\ conn'[c].run = conn[c].run /\ conn'[c].log = k
      /\ conn'[c].carries = conn[c].carries
      /\ part = "start" => conn'[c].at = "end"
  <2>1. \/ Goto(c, "end")
        \/ part = "end" /\ Goto(c, AfterNote(c))
    BY <1>part DEF WriteStart, WriteEnd
  <2>2. AfterNote(c) \in Stages /\ "end" \in Stages
    BY DEF AfterNote, Stages
  <2> QED
    BY <1>k, <2>1, <2>2, Goes
<1>5. ASSUME NEW l \in Logs, l # k, NEW i \in DOMAIN log'[l] PROVE Begun(l, i)'
  <2>1. log'[l] = log[l] /\ i \in DOMAIN log[l] /\ log[l][i].conn \in Conns
    BY <1>2, <1>5, PieceType
  <2> QED
    BY <1>k, <1>4, <1>5, <2>1, BegunKept DEF Others
<1>6. ASSUME NEW i \in DOMAIN log[k], log[k][i].part = "start" PROVE Begun(k, i)'
  <2>type. /\ log[k][i] \in Pieces /\ log[k][i].conn \in Conns /\ i \in 1 .. n /\ i < n
           /\ log'[k][i] = log[k][i]
    BY <1>2, <1>3, <1>6, PieceType
  <2>begun. /\ \A j \in DOMAIN log[k] :
                   NextOfRun(k, i, j) => log[k][j] = [log[k][i] EXCEPT !.part = "end"]
            /\ Awaited(k, i) => Pending(k, i)
    <3>1. Begun(k, i)
      OBVIOUS
    <3> QED
      BY <1>6, <3>1 DEF Begun
  <2>1. ASSUME Pending(k, i), conn[c].run = log[k][i].run
        PROVE  log[k][i].conn = c /\ part = "end" /\ log[k][i] = Piece(c, "start")
    <3> DEFINE d == log[k][i].conn
    <3>1. conn[d].at = "end" /\ conn[d].log = k /\ log[k][i] = Piece(d, "start")
      BY <2>1 DEF Pending
    <3>2. conn[d].run = conn[c].run
      BY <2>1, <3>1 DEF Piece
    <3>3. Mutex(d) = Mutex(c) /\ Writing(d)
      BY <1>k, <3>1, <3>2 DEF Mutex, Writing
    <3>4. d = c
      BY <1>1, <2>type, <3>3 DEF HeldInv
    <3> QED
      BY <1>part, <3>1, <3>4
  <2>2. ASSUME NEW j \in DOMAIN log'[k], NextOfRun(k, i, j)'
        PROVE  log'[k][j] = [log'[k][i] EXCEPT !.part = "end"]
    <3>1. /\ i < j /\ log'[k][j].run = log[k][i].run /\ j \in 1 .. n
          /\ \A m \in i + 1 .. j - 1 : log'[k][m].run # log[k][i].run
      BY <1>3, <2>2, <2>type DEF NextOfRun
    <3>2. \A m \in i + 1 .. j - 1 : m \in DOMAIN log[k] /\ log'[k][m] = log[k][m]
      BY <1>2, <1>3, <2>type, <3>1
    <3>3. CASE j \in DOMAIN log[k]
      <4>1. NextOfRun(k, i, j) /\ log'[k][j] = log[k][j]
        BY <1>2, <3>1, <3>2, <3>3 DEF NextOfRun
      <4> QED
        BY <2>begun, <2>type, <3>3, <4>1, Zenon
    <3>4. CASE j = n
      <4>1. Awaited(k, i)
        BY <1>3, <2>type, <3>1, <3>2, <3>4 DEF Awaited
      <4>2. Pending(k, i)
        BY <2>begun, <4>1
      <4>3. conn[c].run = log[k][i].run
        BY <1>2, <3>1, <3>4 DEF Piece
      <4>4. part = "end" /\ log[k][i] = Piece(c, "start")
        BY <2>1, <4>2, <4>3
      <4>5. Piece(c, "end") = [Piece(c, "start") EXCEPT !.part = "end"]
        BY DEF Piece
      <4> QED
        BY <1>2, <2>type, <3>4, <4>4, <4>5
    <3>5. j \in DOMAIN log[k] \/ j = n
      BY <1>3, <3>1
    <3> QED
      BY <3>3, <3>4, <3>5
  <2>3. ASSUME Awaited(k, i)' PROVE Pending(k, i)'
    <3>1. Awaited(k, i) /\ log'[k][n].run # log[k][i].run
      BY <1>2, <1>3, <2>3, <2>type, SMTT(30) DEF Awaited
    <3>2. Pending(k, i) /\ conn[c].run # log[k][i].run
      BY <1>2, <2>begun, <3>1 DEF Piece
    <3>3. log[k][i].conn # c
      BY <3>2 DEF Pending, Piece
    <3>4. conn'[log[k][i].conn] = conn[log[k][i].conn]
      BY <1>4, <2>type, <3>3 DEF Others
    <3> QED
      BY <2>type, <3>2, <3>4 DEF Pending, Piece
  <2> QED
    BY <2>2, <2>3 DEF Begun
<1>7. Begun(k, n)'
  <2>1. \A j \in DOMAIN log'[k] : ~ NextOfRun(k, n, j)'
    BY <1>3 DEF NextOfRun
  <2>2. log'[k][n].part = "start" => Pending(k, n)'
    <3>1. log'[k][n].part = part /\ log'[k][n].conn = c
      BY <1>2 DEF Piece
    <3>2. part = "start" => Piece(c, "start")' = Piece(c, part)
      BY <1>4 DEF Piece
    <3> QED
      BY <1>2, <1>4, <3>1, <3>2 DEF Pending
  <2> QED
    BY <2>1, <2>2 DEF Begun
<1>8. ASSUME NEW i \in DOMAIN log'[k] PROVE Begun(k, i)'
  <2>1. CASE i = n
    BY <1>7, <2>1
  <2>2. CASE i # n /\ log'[k][i].part = "start"
    <3>1. i \in DOMAIN log[k] /\ log'[k][i] = log[k][i]
      BY <1>2, <1>3, <2>2
    <3> QED
      BY <1>6, <2>2, <3>1
  <2>3. CASE log'[k][i].part # "start"
    BY <2>3 DEF Begun
  <2> QED
    BY <2>1, <2>2, <2>3
<1> QED
  BY <1>5, <1>8

LEMMA LineStep == TypeInv /\ HeldInv /\ LineInv /\ [Next]_vars => LineInv'
<1> SUFFICES ASSUME TypeInv, HeldInv, LineInv, [Next]_vars, failures' = 0
             PROVE  \A k \in Logs : \A i \in DOMAIN log'[k] : Begun(k, i)'
  BY DEF LineInv
<1>more. failures \in Nat /\ failures' # failures + 1
  BY DEF TypeInv
<1>1. CASE \E c \in Conns : WriteStart(c) \/ WriteEnd(c)
  <2>1. PICK c \in Conns : WriteStart(c) \/ WriteEnd(c)
    BY <1>1
  <2>2. failures = 0
    BY <2>1 DEF WriteStart, WriteEnd
  <2>3. \A k \in Logs : \A i \in DOMAIN log[k] : Begun(k, i)
    BY <2>2 DEF LineInv
  <2> QED
    BY <2>1, <2>3, LineWrite
<1>2. ASSUME UNCHANGED <<log, failures>>, \A d \in Conns : conn[d].at = "end" => conn'[d] = conn[d]
      PROVE  \A k \in Logs : \A i \in DOMAIN log'[k] : Begun(k, i)'
  <2> SUFFICES ASSUME NEW k \in Logs, NEW i \in DOMAIN log[k] PROVE Begun(k, i)'
    BY <1>2
  <2>1. Begun(k, i) /\ log[k][i].conn \in Conns
    BY <1>2, PieceType DEF LineInv
  <2> QED
    BY <1>2, <2>1, BegunKept
<1>3. ASSUME NEW c \in Conns,
             \/ LockLog(c) \/ Connect(c) \/ ReadRequest(c) \/ HangUp(c) \/ Forward(c)
             \/ AgentAnswers(c) \/ AnswerClient(c) \/ AskOpen(c) \/ AnswerOpen(c)
      PROVE  \A k \in Logs : \A i \in DOMAIN log'[k] : Begun(k, i)'
  <2>1. UNCHANGED <<log, failures>> /\ conn[c].at # "end"
    BY <1>3 DEF LockLog, HangUp, Forward, AnswerOpen, Connect, ReadRequest, AgentAnswers,
                AnswerClient, AskOpen
  <2>2. Others(c)
    BY <1>3, ConnMoves DEF ConnStep, NoteStep
  <2>3. \A d \in Conns : conn[d].at = "end" => conn'[d] = conn[d]
    BY <2>1, <2>2 DEF Others
  <2>4. UNCHANGED <<log, failures>>
    BY <2>1
  <2> QED
    BY <1>2, <2>3, <2>4, Zenon
<1>4. CASE UNCHANGED vars
  BY <1>2, <1>4 DEF vars
<1> QED
  BY <1>more, <1>1, <1>3, <1>4 DEF Next, ConnStep, NoteStep, WriteFails, KillRun

(* While no write of a log fails and no run dies, the next piece that a    *)
(* run puts on a log after the start of a line is the end of that line, on *)
(* the same message: with any number of runs and of connections, the       *)
(* mutex that a thread holds from its first write to its last is enough.   *)
THEOREM LinesOfARunAreWhole == Spec => []OneLineEachWithinRun
<1>1. Init => TypeInv /\ HeldInv /\ LineInv
  BY TypeInit, HeldInit, LineInit
<1>2. (TypeInv /\ HeldInv /\ LineInv) /\ [Next]_vars => (TypeInv /\ HeldInv /\ LineInv)'
  BY TypeStep, HeldStep, LineStep
<1>3. LineInv => OneLineEachWithinRun
  BY DEF LineInv, Begun, OneLineEachWithinRun
<1> QED
  BY <1>1, <1>2, <1>3, PTL DEF Spec

-----------------------------------------------------------------------------
(* What a line is about: a message of the exchange its connection is in.   *)

Busy == {"note", "start", "end", "forward", "await", "answer"}
CarryInv ==
    \A c \in Conns : conn[c].log = "ssh" /\ conn[c].at \in Busy =>
        /\ conn[c].exchange \in Exchanges
        /\ conn[c].carries \in {conn[c].exchange.request, conn[c].exchange.reply}

Sent == {x.request : x \in Exchanges} \cup {x.reply : x \in Exchanges}
SentInv == \A i \in DOMAIN log["ssh"] : log["ssh"][i].sent \in Sent

LEMMA CarryInit == Init => CarryInv /\ SentInv
  BY DEF Init, CarryInv, SentInv, Closed, Busy, Logs

LEMMA CarryStep == TypeInv /\ CarryInv /\ [Next]_vars => CarryInv'
<1> SUFFICES ASSUME TypeInv, CarryInv, [Next]_vars PROVE CarryInv'
  OBVIOUS
<1>1. ASSUME NEW c \in Conns, ConnStep(c) PROVE CarryInv'
  <2>1. Others(c)
    BY <1>1, ConnMoves
  <2>2. conn'[c].log = "ssh" /\ conn'[c].at \in Busy =>
            /\ conn'[c].exchange \in Exchanges
            /\ conn'[c].carries \in {conn'[c].exchange.request, conn'[c].exchange.reply}
    <3>1. CASE NoteStep(c) \/ Forward(c)
      <4>1. /\ \E stage \in Busy : Goto(c, stage)
            /\ conn[c].at \in Busy
        BY <3>1 DEF NoteStep, LockLog, WriteStart, WriteEnd, WriteFails, Forward, AfterNote, Busy
      <4>2. Busy \subseteq Stages
        BY DEF Busy, Stages
      <4> QED
        BY <4>1, <4>2, Goes DEF CarryInv
    <3>2. CASE HangUp(c) \/ AnswerOpen(c)
      BY <3>2, Goes DEF HangUp, AnswerOpen, Over, Stages, Busy
    <3>3. CASE Connect(c) \/ AskOpen(c) \/ AnswerClient(c)
      BY <3>3, Connects, Asks, ClientHears DEF Busy
    <3>4. CASE ReadRequest(c)
      BY <3>4, Reads
    <3>5. CASE AgentAnswers(c)
      <4>1. conn[c].at \in Busy
        BY <3>5 DEF AgentAnswers, Busy
      <4> QED
        BY <3>5, <4>1, AgentSays DEF CarryInv, Busy
    <3> QED
      BY <1>1, <3>1, <3>2, <3>3, <3>4, <3>5 DEF ConnStep
  <2> QED
    BY <2>1, <2>2 DEF CarryInv, Others
<1>2. ASSUME NEW r \in Runs, KillRun(r) PROVE CarryInv'
  BY <1>2, Killed DEF CarryInv, Busy
<1>3. CASE UNCHANGED vars
  BY <1>3 DEF vars, CarryInv
<1> QED
  BY <1>1, <1>2, <1>3 DEF Next

LEMMA SentStep == TypeInv /\ CarryInv /\ SentInv /\ [Next]_vars => SentInv'
<1> SUFFICES ASSUME TypeInv, CarryInv, SentInv, [Next]_vars PROVE SentInv'
  OBVIOUS
<1>1. UNCHANGED log => SentInv'
  BY ZenonT(30) DEF SentInv
<1>2. UNCHANGED log \/ \E c \in Conns : WriteStart(c) \/ WriteEnd(c)
  BY DEF Next, ConnStep, NoteStep, LockLog, WriteFails, HangUp, Forward, AnswerOpen, Connect,
         ReadRequest, AgentAnswers, AnswerClient, AskOpen, KillRun, vars
<1>3. ASSUME NEW c \in Conns, WriteStart(c) \/ WriteEnd(c) PROVE SentInv'
  <2>1. PICK part \in {"start", "end"} : Write(c, part) /\ conn[c].at = part
    BY <1>3 DEF WriteStart, WriteEnd
  <2>ssh. "ssh" \in Logs
    BY DEF Logs
  <2>2. CASE conn[c].log # "ssh"
    BY <2>ssh, <1>1, <2>1, <2>2, Writes DEF SentInv
  <2>3. CASE conn[c].log = "ssh"
    <3>1. /\ log'["ssh"] \in Seq(Pieces) /\ Len(log'["ssh"]) = Len(log["ssh"]) + 1
          /\ Len(log["ssh"]) \in Nat /\ log["ssh"] \in Seq(Pieces)
          /\ \A i \in DOMAIN log["ssh"] : log'["ssh"][i] = log["ssh"][i]
          /\ log'["ssh"][Len(log["ssh"]) + 1].sent = conn[c].carries
      <4>1. /\ log' \in [Logs -> Seq(Pieces)] /\ Len(log'["ssh"]) = Len(log["ssh"]) + 1
            /\ Len(log["ssh"]) \in Nat
            /\ \A i \in DOMAIN log["ssh"] : log'["ssh"][i] = log["ssh"][i]
            /\ log'["ssh"][Len(log["ssh"]) + 1] = Piece(c, part)
        BY <2>1, <2>3, Writes
      <4>2. Piece(c, part).sent = conn[c].carries
        BY DEF Piece
      <4>3. log["ssh"] \in Seq(Pieces) /\ log'["ssh"] \in Seq(Pieces)
        BY <2>ssh, <4>1 DEF TypeInv
      <4> QED
        BY <4>1, <4>2, <4>3
    <3>2. conn[c].carries \in Sent
      BY <2>1, <2>3 DEF CarryInv, Busy, Sent
    <3>3. \A i \in DOMAIN log'["ssh"] : i \in DOMAIN log["ssh"] \/ i = Len(log["ssh"]) + 1
      BY <3>1
    <3> QED
      BY <3>1, <3>2, <3>3 DEF SentInv
  <2> QED
    BY <2>2, <2>3
<1> QED
  BY <1>1, <1>2, <1>3

-----------------------------------------------------------------------------
(* What Describe reads: a body is put together of strings and cells, and   *)
(* each read takes off the first of them and leaves the rest.  The provers *)
(* need not know what joining and a string's form are but in these reads.  *)

Cells == Seq(Nat)
Then(s, t) == s \o t

LEMMA ThenDoes ==
    ASSUME NEW s \in Cells, NEW t \in Cells
    PROVE  Then(s, t) \in Cells /\ Then(s, <<>>) = s
  BY ConcatProperties, ConcatEmptySeq DEF Cells, Then

LEMMA ThenIs ==
    ASSUME NEW s \in Cells, NEW t \in Cells
    PROVE  /\ Then(s, t) \in Cells /\ Len(s) \in Nat /\ Len(t) \in Nat
           /\ Len(Then(s, t)) = Len(s) + Len(t)
           /\ \A i \in 1 .. Len(s) + Len(t) :
                  Then(s, t)[i] = IF i <= Len(s) THEN s[i] ELSE t[i - Len(s)]
  BY ConcatProperties, LenProperties DEF Cells, Then

LEMMA ThenAssociative ==
    ASSUME NEW s \in Cells, NEW t \in Cells, NEW u \in Cells
    PROVE  Then(Then(s, t), u) = Then(s, Then(t, u))
<1>1. s \in Seq(Nat) /\ t \in Seq(Nat) /\ u \in Seq(Nat)
  BY DEF Cells
<1>2. (s \o t) \o u = s \o (t \o u)
  BY <1>1, ConcatAssociative, SMTT(30)
<1> QED
  BY <1>2, Zenon DEF Then

LEMMA StrDoes ==
    ASSUME NEW u \in Cells
    PROVE  /\ Str(u) \in Cells /\ Len(u) \in Nat /\ Len(Str(u)) = Len(u) + 1
           /\ Str(u)[1] = Len(u) /\ \A i \in 1 .. Len(u) : Str(u)[i + 1] = u[i]
<1> DEFINE n == Len(u)
           h == <<n>>
<1>1. n \in Nat /\ u \in Seq(Nat)
  BY DEF Cells
<1> HIDE DEF n
<1>2. h \in Seq(Nat) /\ Len(h) = 1 /\ h[1] = n
  BY <1>1
<1>3. Str(u) = Then(h, u)
  BY DEF Str, n, Then
<1> HIDE DEF h
<1>4. /\ Str(u) \in Cells /\ Len(Str(u)) = 1 + n
      /\ \A i \in 1 .. 1 + n : Str(u)[i] = IF i <= 1 THEN h[i] ELSE u[i - 1]
  <2>1. /\ Then(h, u) \in Cells /\ Len(Then(h, u)) = Len(h) + Len(u)
        /\ \A i \in 1 .. Len(h) + Len(u) :
               Then(h, u)[i] = IF i <= Len(h) THEN h[i] ELSE u[i - Len(h)]
    BY <1>2, ThenIs, Zenon DEF Cells
  <2>2. Len(u) = n
    BY DEF n
  <2> QED
    BY <1>2, <1>3, <2>1, <2>2
<1>5. Str(u)[1] = n
  BY <1>1, <1>2, <1>4
<1>6. ASSUME NEW i \in 1 .. n PROVE Str(u)[i + 1] = u[i]
  <2>1. i + 1 \in 1 .. 1 + n /\ ~ i + 1 <= 1 /\ (i + 1) - 1 = i
    BY <1>1
  <2> QED
    BY <1>4, <2>1
<1> QED
  BY <1>1, <1>4, <1>5, <1>6 DEF n

LEMMA CellRead ==
    ASSUME NEW k \in Nat, NEW rest \in Cells
    PROVE  Cell(Then(<<k>>, rest)) = Took(k, rest)
<1> DEFINE s == Then(<<k>>, rest)
<1>1. <<k>> \in Cells /\ Len(<<k>>) = 1 /\ <<k>>[1] = k
  BY DEF Cells
<1>2. /\ s \in Cells /\ Len(s) = 1 + Len(rest) /\ Len(rest) \in Nat
      /\ \A i \in 1 .. 1 + Len(rest) : s[i] = IF i <= 1 THEN <<k>>[i] ELSE rest[i - 1]
  BY <1>1, ThenIs
<1> HIDE DEF s
<1>3. s # <<>> /\ Head(s) = k
  BY <1>1, <1>2 DEF Cells
<1>4. Tail(s) = rest
  <2> DEFINE a == Tail(s)
  <2>1. a \in Seq(Nat) /\ Len(a) = Len(s) - 1 /\ \A i \in 1 .. Len(a) : a[i] = s[i + 1]
    BY <1>2, <1>3, HeadTailProperties DEF Cells
  <2> HIDE DEF a
  <2>2. \A i \in 1 .. Len(a) : a[i] = rest[i]
    <3> SUFFICES ASSUME NEW i \in 1 .. Len(a) PROVE a[i] = rest[i]
      OBVIOUS
    <3>1. i + 1 \in 1 .. 1 + Len(rest) /\ ~ i + 1 <= 1 /\ (i + 1) - 1 = i
      BY <1>2, <2>1
    <3> QED
      BY <1>2, <2>1, <3>1
  <2>3. Len(a) = Len(rest)
    BY <1>2, <2>1
  <2>4. a = rest
    BY <2>1, <2>2, <2>3, SeqEqual DEF Cells
  <2> QED
    BY <2>4 DEF a
<1> QED
  BY <1>3, <1>4 DEF Cell, s

LEMMA BytesRead ==
    ASSUME NEW u \in Cells, NEW rest \in Cells
    PROVE  Bytes(Then(Str(u), rest)) = Took(u, rest)
<1> DEFINE p == Str(u)
           s == Then(p, rest)
           n == Len(u)
<1>1. /\ p \in Seq(Nat) /\ n \in Nat /\ Len(p) = n + 1 /\ p[1] = n
      /\ \A i \in 1 .. n : p[i + 1] = u[i]
      /\ u \in Seq(Nat) /\ rest \in Seq(Nat) /\ Len(rest) \in Nat
  BY StrDoes DEF Cells
<1> HIDE DEF p, n
<1>2. /\ s \in Seq(Nat) /\ Len(s) = (n + 1) + Len(rest)
      /\ \A i \in 1 .. (n + 1) + Len(rest) : s[i] = IF i <= n + 1 THEN p[i] ELSE rest[i - (n + 1)]
      /\ \A i \in 1 .. Len(s) : s[i] \in Nat
  <2>1. p \in Cells /\ Len(p) = n + 1
    BY <1>1 DEF Cells
  <2>2. /\ s \in Cells /\ Len(s) = (n + 1) + Len(rest)
        /\ \A i \in 1 .. (n + 1) + Len(rest) : s[i] = IF i <= n + 1 THEN p[i] ELSE rest[i - (n + 1)]
    <3>1. /\ s \in Cells /\ Len(s) = Len(p) + Len(rest)
          /\ \A i \in 1 .. Len(p) + Len(rest) : s[i] = IF i <= Len(p) THEN p[i] ELSE rest[i - Len(p)]
      BY <2>1, ThenIs, Zenon
    <3> HIDE DEF s
    <3> QED
      BY <2>1, <3>1
  <2> HIDE DEF s
  <2> QED
    BY <2>2, ElementOfSeq DEF Cells
<1>3. s # <<>> /\ Head(s) = n /\ ~ n >= Len(s)
  BY <1>1, <1>2
<1> HIDE DEF s
<1>4. SubSeq(s, 2, n + 1) = u
  <2> DEFINE lo == 2
             hi == n + 1
             a == SubSeq(s, lo, hi)
  <2>1. /\ a \in Seq(Nat) /\ Len(a) = n
        /\ \A i \in 1 .. n : a[i] = s[i + 1]
    <3>1. \A i \in lo .. hi : s[i] \in Nat
      <4> SUFFICES ASSUME NEW i \in lo .. hi PROVE s[i] \in Nat
        OBVIOUS
      <4>1. i \in 1 .. Len(s)
        BY <1>1, <1>2
      <4> QED
        BY <1>2, <4>1
    <3>2. lo \in Int /\ hi \in Int
      BY <1>1
    <3>3. hi - lo + 1 = n /\ (IF lo <= hi THEN n ELSE 0) = n /\ \A i \in 1 .. n : lo + i - 1 = i + 1
      BY <1>1
    <3> HIDE DEF lo, hi
    <3>4. /\ a \in Seq(Nat) /\ Len(a) = (IF lo <= hi THEN hi - lo + 1 ELSE 0)
          /\ \A i \in 1 .. hi - lo + 1 : a[i] = s[lo + i - 1]
      BY <3>1, <3>2, SubSeqProperties
    <3> HIDE DEF a
    <3> QED
      BY <3>3, <3>4
  <2> HIDE DEF a
  <2>2. \A i \in 1 .. n : a[i] = u[i]
    <3> SUFFICES ASSUME NEW i \in 1 .. n PROVE a[i] = u[i]
      OBVIOUS
    <3>1. i + 1 \in 1 .. (n + 1) + Len(rest) /\ i + 1 <= n + 1
      BY <1>1
    <3>2. s[i + 1] = p[i + 1]
      BY <1>2, <3>1
    <3> QED
      BY <1>1, <2>1, <3>2
  <2>3. Len(a) = Len(u)
    BY <2>1 DEF n
  <2>4. a = u
    BY <1>1, <2>1, <2>2, <2>3, SeqEqual
  <2> QED
    BY <2>4 DEF a
<1>5. SubSeq(s, n + 2, Len(s)) = rest
  <2> DEFINE lo == n + 2
             hi == Len(s)
             m == Len(rest)
             a == SubSeq(s, lo, hi)
  <2>1. /\ a \in Seq(Nat) /\ Len(a) = m
        /\ \A i \in 1 .. m : a[i] = s[(n + 2) + i - 1]
    <3>1. \A i \in lo .. hi : s[i] \in Nat
      BY <1>1, <1>2
    <3>2. lo \in Int /\ hi \in Int /\ lo = n + 2
      BY <1>1, <1>2
    <3>3. hi - lo + 1 = m /\ (IF lo <= hi THEN m ELSE 0) = m
      BY <1>1, <1>2
    <3> HIDE DEF lo, hi
    <3>4. /\ a \in Seq(Nat) /\ Len(a) = (IF lo <= hi THEN hi - lo + 1 ELSE 0)
          /\ \A i \in 1 .. hi - lo + 1 : a[i] = s[lo + i - 1]
      BY <3>1, <3>2, SubSeqProperties
    <3> HIDE DEF a
    <3> QED
      BY <3>2, <3>3, <3>4
  <2> HIDE DEF a
  <2>2. \A i \in 1 .. m : a[i] = rest[i]
    <3> SUFFICES ASSUME NEW i \in 1 .. m PROVE a[i] = rest[i]
      OBVIOUS
    <3>1. /\ (n + 2) + i - 1 \in 1 .. (n + 1) + m /\ ~ (n + 2) + i - 1 <= n + 1
          /\ ((n + 2) + i - 1) - (n + 1) = i
      BY <1>1
    <3>2. s[(n + 2) + i - 1] = rest[i]
      BY <1>2, <3>1
    <3> QED
      BY <2>1, <3>2
  <2>3. a = rest
    BY <1>1, <2>1, <2>2, SeqEqual
  <2> QED
    BY <2>3 DEF a
<1>6. Bytes(s) = Took(u, rest)
  BY <1>3, <1>4, <1>5 DEF Bytes
<1> QED
  BY <1>6 DEF s, p

LEMMA TwoRead ==
    ASSUME NEW a \in Cells, NEW b \in Cells, NEW rest \in Cells
    PROVE  Two(Then(Str(a), Then(Str(b), rest))) = Took(<<a, b>>, rest)
<1> DEFINE t == Then(Str(b), rest)
           s == Then(Str(a), t)
<1>1. t \in Cells
  BY StrDoes, ThenDoes
<1>2. Bytes(s) = Took(a, t) /\ Bytes(t) = Took(b, rest)
  BY <1>1, BytesRead
<1> HIDE DEF s, t
<1>3. /\ Bytes(s).ok /\ Bytes(s).val = a /\ Bytes(s).rest = t
      /\ Bytes(t).ok /\ Bytes(t).val = b /\ Bytes(t).rest = rest
  BY <1>2 DEF Took
<1>4. Two(s) = IF Bytes(s).ok /\ Bytes(Bytes(s).rest).ok
               THEN Took(<<Bytes(s).val, Bytes(Bytes(s).rest).val>>, Bytes(Bytes(s).rest).rest)
               ELSE Short
  BY Zenon DEF Two
<1>5. Two(s) = Took(<<a, b>>, rest)
  BY <1>3, <1>4, Zenon
<1> QED
  BY <1>5 DEF s, t

LEMMA ThreeRead ==
    ASSUME NEW a \in Cells, NEW b \in Cells, NEW c \in Cells, NEW rest \in Cells
    PROVE  Three(Then(Str(a), Then(Str(b), Then(Str(c), rest)))) = Took(<<a, b, c>>, rest)
<1> DEFINE t == Then(Str(c), rest)
           s == Then(Str(a), Then(Str(b), t))
           ab == <<a, b>>
<1>1. t \in Cells
  BY StrDoes, ThenDoes
<1>2. Two(s) = Took(ab, t) /\ Bytes(t) = Took(c, rest) /\ ab[1] = a /\ ab[2] = b
  BY <1>1, TwoRead, BytesRead
<1> HIDE DEF s, t, ab
<1>3. /\ Two(s).ok /\ Two(s).val = ab /\ Two(s).rest = t
      /\ Bytes(t).ok /\ Bytes(t).val = c /\ Bytes(t).rest = rest
  BY <1>2 DEF Took
<1>4. Three(s) = IF Two(s).ok /\ Bytes(Two(s).rest).ok
                 THEN Took(<<Two(s).val[1], Two(s).val[2], Bytes(Two(s).rest).val>>,
                           Bytes(Two(s).rest).rest)
                 ELSE Short
  BY Zenon DEF Three
<1>5. Three(s) = Took(<<a, b, c>>, rest)
  BY <1>2, <1>3, <1>4, Zenon
<1> QED
  BY <1>5 DEF s, t

(* A frame is its type and its body.                                       *)
LEMMA FrameRead ==
    ASSUME NEW k \in Nat, NEW body \in Cells
    PROVE  /\ Then(<<k>>, body) # <<>> /\ Then(<<k>>, body)[1] = k
           /\ Tail(Then(<<k>>, body)) = body
<1> DEFINE s == Then(<<k>>, body)
<1>1. Cell(s) = Took(k, body)
  BY CellRead
<1> HIDE DEF s
<1>2. s # <<>> /\ Head(s) = k /\ Tail(s) = body
  BY <1>1 DEF Cell, Short, Took
<1>3. s[1] = Head(s)
  BY <1>2
<1> QED
  BY <1>2, <1>3 DEF s

LEMMA DescribeOf ==
    ASSUME NEW k \in Nat, NEW body \in Cells, NEW frame, frame = Then(<<k>>, body)
    PROVE  /\ k = SIGN_REQUEST => Describe(frame) = SignRequest(frame, body)
           /\ k = SIGN_RESPONSE => Describe(frame) = SignResponse(frame, body)
           /\ k = EXTENSION => Describe(frame) = Extension(frame, body)
           /\ k = FAILURE => Describe(frame) = Plain("FAILURE")
           /\ k = SUCCESS => Describe(frame) = Plain("SUCCESS")
           /\ k = EXTENSION_FAILURE => Describe(frame) = Plain("EXTENSION_FAILURE")
           /\ k = REQUEST_IDENTITIES => Describe(frame) = Plain("REQUEST_IDENTITIES")
           /\ k \notin {FAILURE, SUCCESS, EXTENSION_FAILURE, REQUEST_IDENTITIES,
                        IDENTITIES_ANSWER, SIGN_REQUEST, SIGN_RESPONSE, EXTENSION} =>
                  Describe(frame) = Message("OTHER", <<>>, Nobody, k)
           /\ Malformed(frame) = Message("MALFORMED", <<>>, Nobody, k)
<1>1. frame # <<>> /\ frame[1] = k /\ Tail(frame) = body
  BY FrameRead
<1>2. Malformed(frame) = Message("MALFORMED", <<>>, Nobody, k)
  BY <1>1 DEF Malformed
<1>3. Describe(frame) =
          CASE k = FAILURE -> Plain("FAILURE")
            [] k = SUCCESS -> Plain("SUCCESS")
            [] k = EXTENSION_FAILURE -> Plain("EXTENSION_FAILURE")
            [] k = REQUEST_IDENTITIES -> Plain("REQUEST_IDENTITIES")
            [] k = IDENTITIES_ANSWER -> Identities(frame, body)
            [] k = SIGN_REQUEST -> SignRequest(frame, body)
            [] k = SIGN_RESPONSE -> SignResponse(frame, body)
            [] k = EXTENSION -> Extension(frame, body)
            [] OTHER -> Message("OTHER", <<>>, Nobody, k)
  BY <1>1, Zenon DEF Describe
<1> QED
  BY ONLY <1>2, <1>3 DEF FAILURE, SUCCESS, REQUEST_IDENTITIES, IDENTITIES_ANSWER,
      SIGN_REQUEST, SIGN_RESPONSE, EXTENSION, EXTENSION_FAILURE

-----------------------------------------------------------------------------
(* The messages of the protocol, with anything behind the fields that the  *)
(* log names, as they are sent and as they are meant.                      *)

Keys == {KeyBlob(algorithm, material) : algorithm \in Cells, material \in Cells}

(* A signature over an ssh login, and over data of another kind.           *)
LoginSign(w) ==
    \E key \in Keys, session, user, service, rest, more \in Cells, flags \in Nat :
        w = Wire(EncodedSign(key, Login(session, user, service) \o rest, flags) \o more,
                 Message("SIGN_REQUEST", <<key>>, <<user, service>>, flags))
OtherSign(w) ==
    \E key \in Keys, session, rest, more \in Cells, it \in Nat \ {USERAUTH_REQUEST}, flags \in Nat :
        w = Wire(EncodedSign(key, Str(session) \o (<<it>> \o rest), flags) \o more,
                 Message("SIGN_REQUEST", <<key>>, Nobody, flags))
Signature(w) ==
    \E signature, more \in Cells :
        w = Wire(EncodedResponse(signature) \o more,
                 Message("SIGN_RESPONSE", <<>>, Nobody, Len(signature)))
Bind(w) ==
    \E key \in Keys, session, signature, more \in Cells, forwarding \in Nat :
        w = Wire(EncodedBind(key, session, signature, forwarding) \o more,
                 Message("SESSION_BIND", <<key>>, Nobody, forwarding))
OtherExtension(w) ==
    \E name \in Cells \ {SessionBind}, more \in Cells :
        w = Wire(<<EXTENSION>> \o (Str(name) \o more), Message("EXTENSION", <<>>, name, 0))
(* One of a type alone, and one whose first string ends too early.         *)
OfKind(kind) ==
    CASE kind = FAILURE -> Plain("FAILURE")
      [] kind = SUCCESS -> Plain("SUCCESS")
      [] kind = EXTENSION_FAILURE -> Plain("EXTENSION_FAILURE")
      [] kind = REQUEST_IDENTITIES -> Plain("REQUEST_IDENTITIES")
      [] OTHER -> Message("OTHER", <<>>, Nobody, kind)
OfType(w) ==
    \E more \in Cells, kind \in Nat \ {IDENTITIES_ANSWER, SIGN_REQUEST, SIGN_RESPONSE, EXTENSION} :
        w = Wire(<<kind>> \o more, OfKind(kind))
CutShort(w) ==
    \E kind \in {SIGN_REQUEST, SIGN_RESPONSE, EXTENSION}, body \in Cells :
        /\ body # <<>> => Head(body) >= Len(body)
        /\ w = Wire(<<kind>> \o body, Message("MALFORMED", <<>>, Nobody, kind))

InForm(w) ==
    \/ LoginSign(w) \/ OtherSign(w) \/ Signature(w) \/ Bind(w) \/ OtherExtension(w)
    \/ OfType(w) \/ CutShort(w)

LEMMA KeyRead ==
    ASSUME NEW key \in Keys
    PROVE  key \in Cells /\ IsKey(key)
<1>1. PICK algorithm \in Cells, material \in Cells : key = Then(Str(algorithm), material)
  BY DEF Keys, KeyBlob, Then
<1>2. key \in Cells
  BY <1>1, StrDoes, ThenDoes
<1>3. Bytes(key) = Took(algorithm, material)
  BY <1>1, BytesRead
<1> QED
  BY <1>2, <1>3 DEF IsKey, Took

(* What a signature covers, whatever stands behind the service.            *)
LEMMA LoginRead ==
    ASSUME NEW session \in Cells, NEW user \in Cells, NEW service \in Cells, NEW rest \in Cells
    PROVE  /\ Login(session, user, service) \o rest \in Cells
           /\ Userauth(Login(session, user, service) \o rest) = <<user, service>>
<1> DEFINE s == Str(session)
           i == <<USERAUTH_REQUEST>>
           u == Str(user)
           v == Str(service)
<1>1. s \in Cells /\ i \in Cells /\ u \in Cells /\ v \in Cells
  BY StrDoes DEF USERAUTH_REQUEST, Cells
<1>2. Login(session, user, service) \o rest = Then(Then(Then(Then(s, i), u), v), rest)
  BY Zenon DEF Login, Then
<1> DEFINE n == Then(u, Then(v, rest))
<1>3. n \in Cells /\ Then(i, n) \in Cells
  BY <1>1, ThenDoes
<1>4. Two(n) = Took(<<user, service>>, rest)
  BY TwoRead
<1>5. Cell(Then(i, n)) = Took(USERAUTH_REQUEST, n)
  BY <1>3, CellRead DEF USERAUTH_REQUEST
<1>6. Bytes(Then(s, Then(i, n))) = Took(session, Then(i, n))
  BY <1>3, BytesRead
<1> HIDE DEF s, i, u, v
<1>7. Then(Then(Then(Then(s, i), u), v), rest) = Then(s, Then(i, n))
  <2>1. Then(s, i) \in Cells /\ Then(v, rest) \in Cells
    BY <1>1, ThenDoes
  <2>2. Then(Then(s, i), u) \in Cells
    BY <1>1, <2>1, ThenDoes
  <2>3. Then(Then(Then(Then(s, i), u), v), rest) = Then(Then(Then(s, i), u), Then(v, rest))
    BY <1>1, <2>2, ThenAssociative
  <2>4. Then(Then(Then(s, i), u), Then(v, rest)) = Then(Then(s, i), n)
    BY <1>1, <2>1, ThenAssociative
  <2>5. Then(Then(s, i), n) = Then(s, Then(i, n))
    BY <1>1, <1>3, ThenAssociative
  <2> QED
    BY <2>3, <2>4, <2>5
<1> HIDE DEF n
<1>8. Userauth(Then(s, Then(i, n))) = <<user, service>>
  BY <1>4, <1>5, <1>6 DEF Userauth, Took
<1>9. Then(s, Then(i, n)) \in Cells
  BY <1>1, <1>3, ThenDoes
<1> QED
  BY <1>2, <1>7, <1>8, <1>9

LEMMA OtherRead ==
    ASSUME NEW session \in Cells, NEW rest \in Cells, NEW it \in Nat \ {USERAUTH_REQUEST}
    PROVE  /\ Str(session) \o (<<it>> \o rest) \in Cells
           /\ Userauth(Str(session) \o (<<it>> \o rest)) = Nobody
<1> DEFINE n == Then(<<it>>, rest)
<1>1. n \in Cells /\ Str(session) \in Cells
  <2>1. <<it>> \in Cells
    BY DEF Cells
  <2> QED
    BY <2>1, StrDoes, ThenDoes
<1>2. Cell(n) = Took(it, rest) /\ Bytes(Then(Str(session), n)) = Took(session, n)
  BY <1>1, CellRead, BytesRead
<1>3. Then(Str(session), n) \in Cells
  BY <1>1, ThenDoes
<1>4. Str(session) \o (<<it>> \o rest) = Then(Str(session), n)
  BY Zenon DEF Then
<1> HIDE DEF n
<1>5. Userauth(Then(Str(session), n)) = Nobody
  BY <1>2 DEF Userauth, Took
<1> QED
  BY <1>3, <1>4, <1>5

(* A request to sign names its key, its flags, and what it covers.         *)
LEMMA SignRead ==
    ASSUME NEW key \in Keys, NEW data \in Cells, NEW more \in Cells, NEW flags \in Nat
    PROVE  Describe(EncodedSign(key, data, flags) \o more) =
               Message("SIGN_REQUEST", <<key>>, Userauth(data), flags)
<1> DEFINE k == <<SIGN_REQUEST>>
           b == Str(key)
           d == Str(data)
           f == <<flags>>
           body == Then(b, Then(d, Then(f, more)))
<1>1. /\ k \in Cells /\ b \in Cells /\ d \in Cells /\ f \in Cells /\ key \in Cells /\ IsKey(key)
      /\ SIGN_REQUEST \in Nat
  BY KeyRead, StrDoes DEF SIGN_REQUEST, Cells
<1>2. EncodedSign(key, data, flags) \o more = Then(Then(Then(Then(k, b), d), f), more)
  BY Zenon DEF EncodedSign, Then
<1>3. Then(f, more) \in Cells /\ Then(d, Then(f, more)) \in Cells /\ body \in Cells
  BY <1>1, ThenDoes
<1>4. Two(body) = Took(<<key, data>>, Then(f, more)) /\ Cell(Then(f, more)) = Took(flags, more)
  BY <1>1, <1>3, TwoRead, CellRead
<1>5. Describe(Then(k, body)) = SignRequest(Then(k, body), body)
  BY <1>1, <1>3, DescribeOf
<1> HIDE DEF k, b, d, f
<1>6. Then(Then(Then(Then(k, b), d), f), more) = Then(k, body)
  <2>1. Then(k, b) \in Cells
    BY <1>1, ThenDoes
  <2>2. Then(Then(k, b), d) \in Cells
    BY <1>1, <2>1, ThenDoes
  <2>3. Then(Then(Then(Then(k, b), d), f), more) = Then(Then(Then(k, b), d), Then(f, more))
    BY <1>1, <2>2, ThenAssociative
  <2>4. Then(Then(Then(k, b), d), Then(f, more)) = Then(Then(k, b), Then(d, Then(f, more)))
    BY <1>1, <1>3, <2>1, ThenAssociative
  <2>5. Then(Then(k, b), Then(d, Then(f, more))) = Then(k, body)
    BY <1>1, <1>3, ThenAssociative
  <2> QED
    BY <2>3, <2>4, <2>5
<1> HIDE DEF body
<1>7. \A frame : SignRequest(frame, body) = Message("SIGN_REQUEST", <<key>>, Userauth(data), flags)
  BY <1>1, <1>4 DEF SignRequest, Took
<1> QED
  BY <1>2, <1>5, <1>6, <1>7

LEMMA SignatureRead ==
    ASSUME NEW signature \in Cells, NEW more \in Cells
    PROVE  Describe(EncodedResponse(signature) \o more) =
               Message("SIGN_RESPONSE", <<>>, Nobody, Len(signature))
<1> DEFINE k == <<SIGN_RESPONSE>>
           b == Str(signature)
           body == Then(b, more)
<1>1. k \in Cells /\ b \in Cells /\ body \in Cells /\ SIGN_RESPONSE \in Nat
  BY StrDoes, ThenDoes DEF SIGN_RESPONSE, Cells
<1>2. EncodedResponse(signature) \o more = Then(Then(k, b), more)
  BY Zenon DEF EncodedResponse, Then
<1>3. Bytes(body) = Took(signature, more)
  BY BytesRead
<1>4. Describe(Then(k, body)) = SignResponse(Then(k, body), body)
  BY <1>1, DescribeOf
<1>5. \A frame : SignResponse(frame, body) = Message("SIGN_RESPONSE", <<>>, Nobody, Len(signature))
  <2> HIDE DEF body
  <2> QED
    BY <1>3 DEF SignResponse, Took
<1> HIDE DEF k, b
<1>6. Then(Then(k, b), more) = Then(k, body)
  BY <1>1, ThenAssociative
<1> QED
  BY <1>2, <1>4, <1>5, <1>6

LEMMA BindRead ==
    ASSUME NEW key \in Keys, NEW session \in Cells, NEW signature \in Cells, NEW more \in Cells,
           NEW forwarding \in Nat
    PROVE  Describe(EncodedBind(key, session, signature, forwarding) \o more) =
               Message("SESSION_BIND", <<key>>, Nobody, forwarding)
<1> DEFINE k == <<EXTENSION>>
           n == Str(SessionBind)
           b == Str(key)
           s == Str(session)
           g == Str(signature)
           f == <<forwarding>>
           last == Then(f, more)
           rest == Then(b, Then(s, Then(g, last)))
           body == Then(n, rest)
<1>1. /\ k \in Cells /\ n \in Cells /\ b \in Cells /\ s \in Cells /\ g \in Cells /\ f \in Cells
      /\ key \in Cells /\ IsKey(key) /\ EXTENSION \in Nat /\ SessionBind \in Cells
  <2>1. k \in Cells /\ f \in Cells /\ EXTENSION \in Nat /\ SessionBind \in Cells
    BY DEF EXTENSION, SessionBind, Cells
  <2> QED
    BY <2>1, KeyRead, StrDoes
<1>2. EncodedBind(key, session, signature, forwarding) \o more =
          Then(Then(Then(Then(Then(Then(k, n), b), s), g), f), more)
  BY Zenon DEF EncodedBind, Then
<1>3. /\ last \in Cells /\ Then(g, last) \in Cells /\ Then(s, Then(g, last)) \in Cells
      /\ rest \in Cells /\ body \in Cells
  BY <1>1, ThenDoes
<1>4. /\ Bytes(body) = Took(SessionBind, rest)
      /\ Three(rest) = Took(<<key, session, signature>>, last)
      /\ Cell(last) = Took(forwarding, more)
  BY <1>1, <1>3, BytesRead, ThreeRead, CellRead
<1>5. Describe(Then(k, body)) = Extension(Then(k, body), body)
  BY <1>1, <1>3, DescribeOf
<1> HIDE DEF k, n, b, s, g, f
<1>6. Then(Then(Then(Then(Then(Then(k, n), b), s), g), f), more) = Then(k, body)
  <2>1. Then(k, n) \in Cells
    BY <1>1, ThenDoes
  <2>2. Then(Then(k, n), b) \in Cells
    BY <1>1, <2>1, ThenDoes
  <2>3. Then(Then(Then(k, n), b), s) \in Cells
    BY <1>1, <2>2, ThenDoes
  <2>4. Then(Then(Then(Then(k, n), b), s), g) \in Cells
    BY <1>1, <2>3, ThenDoes
  <2>5. Then(Then(Then(Then(Then(Then(k, n), b), s), g), f), more) =
            Then(Then(Then(Then(Then(k, n), b), s), g), last)
    BY <1>1, <2>4, ThenAssociative
  <2> HIDE DEF last
  <2>6. Then(Then(Then(Then(Then(k, n), b), s), g), last) =
            Then(Then(Then(Then(k, n), b), s), Then(g, last))
    BY <1>1, <1>3, <2>3, ThenAssociative
  <2>7. Then(Then(Then(Then(k, n), b), s), Then(g, last)) =
            Then(Then(Then(k, n), b), Then(s, Then(g, last)))
    BY <1>1, <1>3, <2>2, ThenAssociative
  <2>8. Then(Then(Then(k, n), b), Then(s, Then(g, last))) = Then(Then(k, n), rest)
    BY <1>1, <1>3, <2>1, ThenAssociative
  <2>9. Then(Then(k, n), rest) = Then(k, body)
    <3> HIDE DEF rest
    <3> QED
      BY <1>1, <1>3, ThenAssociative
  <2> QED
    BY <2>5, <2>6, <2>7, <2>8, <2>9
<1> HIDE DEF last, rest, body
<1>7. ASSUME NEW frame PROVE Extension(frame, body) = Message("SESSION_BIND", <<key>>, Nobody, forwarding)
  <2>1. /\ Bytes(body).ok /\ Bytes(body).val = SessionBind /\ Bytes(body).rest = rest
        /\ Three(rest).ok /\ Three(rest).val[1] = key /\ Three(rest).rest = last
        /\ Cell(last).ok /\ Cell(last).val = forwarding
    BY <1>4 DEF Took
  <2>2. Extension(frame, body) =
            IF ~ Bytes(body).ok THEN Malformed(frame)
            ELSE IF Bytes(body).val # SessionBind
                 THEN Message("EXTENSION", <<>>, Bytes(body).val, 0)
            ELSE IF /\ Three(Bytes(body).rest).ok /\ Cell(Three(Bytes(body).rest).rest).ok
                    /\ IsKey(Three(Bytes(body).rest).val[1])
                 THEN Message("SESSION_BIND", <<Three(Bytes(body).rest).val[1]>>, Nobody,
                              Cell(Three(Bytes(body).rest).rest).val)
            ELSE Malformed(frame)
    BY Zenon DEF Extension
  <2> QED
    BY <1>1, <2>1, <2>2, Zenon
<1> QED
  BY <1>2, <1>5, <1>6, <1>7

LEMMA ExtensionRead ==
    ASSUME NEW name \in Cells \ {SessionBind}, NEW more \in Cells
    PROVE  Describe(<<EXTENSION>> \o (Str(name) \o more)) = Message("EXTENSION", <<>>, name, 0)
<1> DEFINE k == <<EXTENSION>>
           body == Then(Str(name), more)
<1>1. body \in Cells /\ EXTENSION \in Nat
  BY StrDoes, ThenDoes DEF EXTENSION
<1>2. Bytes(body) = Took(name, more)
  BY BytesRead
<1>3. Describe(Then(k, body)) = Extension(Then(k, body), body)
  BY <1>1, DescribeOf
<1>4. <<EXTENSION>> \o (Str(name) \o more) = Then(k, body)
  BY Zenon DEF Then
<1> HIDE DEF body
<1>5. \A frame : Extension(frame, body) = Message("EXTENSION", <<>>, name, 0)
  BY <1>2 DEF Extension, Took
<1> QED
  BY <1>3, <1>4, <1>5

LEMMA CutRead ==
    ASSUME NEW kind \in {SIGN_REQUEST, SIGN_RESPONSE, EXTENSION}, NEW body \in Cells,
           body # <<>> => Head(body) >= Len(body)
    PROVE  Describe(<<kind>> \o body) = Message("MALFORMED", <<>>, Nobody, kind)
<1>1. Bytes(body) = Short
  BY DEF Bytes
<1>2. ~ Bytes(body).ok /\ ~ Two(body).ok
  <2>1. Bytes(body).ok = FALSE /\ Short.ok = FALSE
    BY <1>1 DEF Short
  <2>2. Two(body) = IF Bytes(body).ok /\ Bytes(Bytes(body).rest).ok
                    THEN Took(<<Bytes(body).val, Bytes(Bytes(body).rest).val>>,
                              Bytes(Bytes(body).rest).rest)
                    ELSE Short
    BY Zenon DEF Two
  <2>3. Two(body) = Short
    BY <2>1, <2>2, Zenon
  <2> QED
    BY <2>1, <2>3, Zenon
<1> DEFINE f == Then(<<kind>>, body)
<1>3. /\ SignRequest(f, body) = Malformed(f)
      /\ SignResponse(f, body) = Malformed(f)
      /\ Extension(f, body) = Malformed(f)
  <2> HIDE DEF f
  <2>1. SignRequest(f, body) = Malformed(f)
    BY <1>2, Zenon DEF SignRequest
  <2>2. SignResponse(f, body) = Malformed(f)
    BY <1>2, Zenon DEF SignResponse
  <2>3. Extension(f, body) = Malformed(f)
    BY <1>2, Zenon DEF Extension
  <2> QED
    BY <2>1, <2>2, <2>3, Zenon
<1>4. kind \in Nat
  BY DEF SIGN_REQUEST, SIGN_RESPONSE, EXTENSION
<1>5. <<kind>> \o body = f
  BY Zenon DEF Then
<1>6. /\ kind = SIGN_REQUEST => Describe(f) = SignRequest(f, body)
      /\ kind = SIGN_RESPONSE => Describe(f) = SignResponse(f, body)
      /\ kind = EXTENSION => Describe(f) = Extension(f, body)
      /\ Malformed(f) = Message("MALFORMED", <<>>, Nobody, kind)
  BY <1>4, DescribeOf, Zenon
<1> HIDE DEF f
<1>7. kind = SIGN_REQUEST \/ kind = SIGN_RESPONSE \/ kind = EXTENSION
  OBVIOUS
<1>8. Describe(f) = Malformed(f)
  BY <1>3, <1>6, <1>7, Zenon
<1> QED
  BY <1>5, <1>6, <1>8, Zenon

LEMMA TypeRead ==
    ASSUME NEW kind \in Nat \ {IDENTITIES_ANSWER, SIGN_REQUEST, SIGN_RESPONSE, EXTENSION},
           NEW more \in Cells
    PROVE  Describe(<<kind>> \o more) = OfKind(kind)
<1> DEFINE f == Then(<<kind>>, more)
<1>1. /\ kind = FAILURE => Describe(f) = Plain("FAILURE")
      /\ kind = SUCCESS => Describe(f) = Plain("SUCCESS")
      /\ kind = EXTENSION_FAILURE => Describe(f) = Plain("EXTENSION_FAILURE")
      /\ kind = REQUEST_IDENTITIES => Describe(f) = Plain("REQUEST_IDENTITIES")
      /\ kind \notin {FAILURE, SUCCESS, EXTENSION_FAILURE, REQUEST_IDENTITIES,
                      IDENTITIES_ANSWER, SIGN_REQUEST, SIGN_RESPONSE, EXTENSION} =>
             Describe(f) = Message("OTHER", <<>>, Nobody, kind)
  BY DescribeOf
<1>2. <<kind>> \o more = f
  BY Zenon DEF Then
<1> HIDE DEF f
<1> QED
  BY <1>1, <1>2 DEF OfKind, FAILURE, SUCCESS, REQUEST_IDENTITIES, EXTENSION_FAILURE

(* describe reads a message of any of these forms as what it was meant to  *)
(* be, however long its strings are and whatever follows: a field is read  *)
(* where the last one ended, and nothing is taken for another type.        *)
THEOREM ReadBack ==
    ASSUME NEW w, InForm(w)
    PROVE  Describe(w.frame) = w.means
<1>0. \A frame, means : Wire(frame, means).frame = frame /\ Wire(frame, means).means = means
  BY DEF Wire
<1>1. CASE LoginSign(w)
  <2>1. PICK key \in Keys, session \in Cells, user \in Cells, service \in Cells, rest \in Cells,
             more \in Cells, flags \in Nat :
            w = Wire(EncodedSign(key, Login(session, user, service) \o rest, flags) \o more,
                     Message("SIGN_REQUEST", <<key>>, <<user, service>>, flags))
    BY <1>1 DEF LoginSign
  <2> DEFINE data == Login(session, user, service) \o rest
  <2>2. data \in Cells /\ Userauth(data) = <<user, service>>
    BY LoginRead
  <2> HIDE DEF data
  <2>3. Describe(EncodedSign(key, data, flags) \o more) =
            Message("SIGN_REQUEST", <<key>>, <<user, service>>, flags)
    BY <2>2, SignRead
  <2> QED
    BY <1>0, <2>1, <2>3, Zenon DEF data
<1>2. CASE OtherSign(w)
  <2>1. PICK key \in Keys, session \in Cells, rest \in Cells, more \in Cells,
             it \in Nat \ {USERAUTH_REQUEST}, flags \in Nat :
            w = Wire(EncodedSign(key, Str(session) \o (<<it>> \o rest), flags) \o more,
                     Message("SIGN_REQUEST", <<key>>, Nobody, flags))
    BY <1>2 DEF OtherSign
  <2> DEFINE data == Str(session) \o (<<it>> \o rest)
  <2>2. data \in Cells /\ Userauth(data) = Nobody
    BY OtherRead
  <2> HIDE DEF data
  <2>3. Describe(EncodedSign(key, data, flags) \o more) =
            Message("SIGN_REQUEST", <<key>>, Nobody, flags)
    BY <2>2, SignRead
  <2> QED
    BY <1>0, <2>1, <2>3, Zenon DEF data
<1>3. CASE Signature(w)
  <2>1. PICK signature \in Cells, more \in Cells :
            w = Wire(EncodedResponse(signature) \o more,
                     Message("SIGN_RESPONSE", <<>>, Nobody, Len(signature)))
    BY <1>3 DEF Signature
  <2>2. Describe(EncodedResponse(signature) \o more) =
            Message("SIGN_RESPONSE", <<>>, Nobody, Len(signature))
    BY SignatureRead
  <2> QED
    BY <1>0, <2>1, <2>2, Zenon
<1>4. CASE Bind(w)
  <2>1. PICK key \in Keys, session \in Cells, signature \in Cells, more \in Cells,
             forwarding \in Nat :
            w = Wire(EncodedBind(key, session, signature, forwarding) \o more,
                     Message("SESSION_BIND", <<key>>, Nobody, forwarding))
    BY <1>4 DEF Bind
  <2>2. Describe(EncodedBind(key, session, signature, forwarding) \o more) =
            Message("SESSION_BIND", <<key>>, Nobody, forwarding)
    BY BindRead
  <2> QED
    BY <1>0, <2>1, <2>2, Zenon
<1>5. CASE OtherExtension(w)
  <2>1. PICK name \in Cells \ {SessionBind}, more \in Cells :
            w = Wire(<<EXTENSION>> \o (Str(name) \o more), Message("EXTENSION", <<>>, name, 0))
    BY <1>5 DEF OtherExtension
  <2>2. Describe(<<EXTENSION>> \o (Str(name) \o more)) = Message("EXTENSION", <<>>, name, 0)
    BY ExtensionRead
  <2> QED
    BY <1>0, <2>1, <2>2, Zenon
<1>6. CASE OfType(w)
  <2>1. PICK more \in Cells,
             kind \in Nat \ {IDENTITIES_ANSWER, SIGN_REQUEST, SIGN_RESPONSE, EXTENSION} :
            w = Wire(<<kind>> \o more, OfKind(kind))
    BY <1>6, Zenon DEF OfType
  <2>2. Describe(<<kind>> \o more) = OfKind(kind)
    BY TypeRead
  <2> QED
    BY <1>0, <2>1, <2>2, Zenon
<1>7. CASE CutShort(w)
  <2>1. PICK kind \in {SIGN_REQUEST, SIGN_RESPONSE, EXTENSION}, body \in Cells :
            /\ body # <<>> => Head(body) >= Len(body)
            /\ w = Wire(<<kind>> \o body, Message("MALFORMED", <<>>, Nobody, kind))
    BY <1>7, Zenon DEF CutShort
  <2>2. Describe(<<kind>> \o body) = Message("MALFORMED", <<>>, Nobody, kind)
    BY <2>1, CutRead
  <2> QED
    BY <1>0, <2>1, <2>2, Zenon
<1> QED
  BY <1>1, <1>2, <1>3, <1>4, <1>5, <1>6, <1>7 DEF InForm

(* A line of the ssh log names a message that went over its connection, so *)
(* it names it rightly, whatever messages of these forms the clients and   *)
(* their agents send.  The answer with a list of keys is read by a         *)
(* recursion over its count, which the run checks and no proof does.       *)
ProtocolForm ==
    \A x \in Exchanges : \A w \in {x.request, x.reply} :
        \/ InForm(w)
        \/ Head(w.frame) = IDENTITIES_ANSWER /\ Describe(w.frame) = w.means

THEOREM LinesAreOfMessages == ProtocolForm => (Spec => []LinesNameMessages)
<1>1. Init => TypeInv /\ CarryInv /\ SentInv
  BY TypeInit, CarryInit
<1>2. (TypeInv /\ CarryInv /\ SentInv) /\ [Next]_vars => (TypeInv /\ CarryInv /\ SentInv)'
  BY TypeStep, CarryStep, SentStep
<1> SUFFICES ASSUME ProtocolForm PROVE Spec => []LinesNameMessages
  OBVIOUS
<1>3. \A w \in Sent : Describe(w.frame) = w.means
  BY ReadBack DEF ProtocolForm, Sent
<1>4. SentInv => LinesNameMessages
  BY <1>3 DEF SentInv, LinesNameMessages
<1> QED
  BY <1>1, <1>2, <1>4, PTL DEF Spec
=============================================================================
