------------------------------ MODULE Brokers ------------------------------
(***************************************************************************)
(* The two sockets an `nd7 run` serves: the ssh-agent proxy                *)
(* (src/src/ssh_proxy.rs) forwards every message to the user's agent and   *)
(* every reply back, and the open broker (src/src/open_proxy.rs) opens a   *)
(* URL from outside the sandbox.  A connection is a thread; what each asks *)
(* for lands on a line of a log under the state root.                      *)
(*                                                                         *)
(* All runs append to the same two logs.  The mutex around a log is the    *)
(* process's own, and a line is several writes, here two.  The agent may   *)
(* never answer, a client may go away and a run may be killed.             *)
(***************************************************************************)
EXTENDS SshAgent, FiniteSets

CONSTANTS
    Runs,        \* nd7 run processes
    Conns,       \* connections, each a thread of one run
    NoRun,       \* no run
    NoConn,      \* no connection
    Exchanges,   \* pairs of what a client and its agent send each other
    MaxRequests, \* bound: messages of one connection
    MaxFailures  \* bound: runs killed and writes of a log that fail

ASSUME BrokersAssumption ==
    /\ NoRun \notin Runs /\ NoConn \notin Conns
    /\ MaxRequests \in Nat /\ MaxFailures \in Nat

Logs == {"ssh", "open"}

(* What the wire carries, and what it meant to who sent it.                *)
Wire(frame, means) == [frame |-> frame, means |-> means]
Exchange(request, reply) == [request |-> request, reply |-> reply]
Nothing == Wire(<<>>, Plain("NONE"))

VARIABLES
    up,       \* up[r]: run r serves its sockets
    conn,     \* conn[c]: its log, run and stage, and what it carries
    holder,   \* holder[r][k]: the connection in the mutex of log k
    log,      \* log[k]: pieces of lines, in the order they were appended
    failures  \* history: runs killed and writes that failed

vars == <<up, conn, holder, log, failures>>

Closed == [log |-> "ssh", run |-> NoRun, at |-> "closed", carries |-> Nothing,
           exchange |-> Exchange(Nothing, Nothing), dir |-> ">", left |-> 0]

Init ==
    /\ up = [r \in Runs |-> TRUE]
    /\ conn = [c \in Conns |-> Closed]
    /\ holder = [r \in Runs |-> [k \in Logs |-> NoConn]]
    /\ log = [k \in Logs |-> <<>>]
    /\ failures = 0

Goto(c, stage) == conn' = [conn EXCEPT ![c].at = stage]
Over(c) == Goto(c, "over")

-----------------------------------------------------------------------------
(* The log.                                                                *)

(* Slip: the thread writes without the mutex.                              *)
LockLogShared(c) ==
    /\ conn[c].at = "note"
    /\ Goto(c, "start")
    /\ UNCHANGED <<up, holder, log, failures>>
LockLog(c) ==
    /\ conn[c].at = "note" /\ holder[conn[c].run][conn[c].log] = NoConn
    /\ holder' = [holder EXCEPT ![conn[c].run][conn[c].log] = c]
    /\ Goto(c, "start")
    /\ UNCHANGED <<up, log, failures>>

(* What a line is about it says in the words of Describe.                  *)
Piece(c, part) ==
    [run |-> conn[c].run, conn |-> c, part |-> part, sent |-> conn[c].carries]
Write(c, part) == log' = [log EXCEPT ![conn[c].log] = Append(@, Piece(c, part))]

WriteStart(c) ==
    /\ conn[c].at = "start"
    /\ Write(c, "start")
    /\ Goto(c, "end")
    /\ UNCHANGED <<up, holder, failures>>

(* A request goes to the agent after its line, a reply to the client.      *)
AfterNote(c) == IF conn[c].log = "ssh" /\ conn[c].dir = ">" THEN "forward" ELSE "answer"
(* Slip: the mutex is kept until the reply is there.                       *)
UnlockAtReply(c) ==
    holder' = IF AfterNote(c) = "forward" THEN holder
              ELSE [holder EXCEPT ![conn[c].run][conn[c].log] = NoConn]
Unlock(c) == holder' = [holder EXCEPT ![conn[c].run][conn[c].log] = NoConn]

WriteEnd(c) ==
    /\ conn[c].at = "end"
    /\ Write(c, "end")
    /\ Unlock(c)
    /\ Goto(c, AfterNote(c))
    /\ UNCHANGED <<up, failures>>

(* One line lost, whole or in part, not an error.                          *)
WriteFails(c) ==
    /\ conn[c].at \in {"start", "end"} /\ failures < MaxFailures
    /\ failures' = failures + 1
    /\ Unlock(c)
    /\ Goto(c, AfterNote(c))
    /\ UNCHANGED <<up, log>>

-----------------------------------------------------------------------------
(* proxy: one connection to the agent for one of the client's.             *)

Connect(c) ==
    /\ conn[c].at = "closed"
    /\ \E r \in Runs :
           /\ up[r]
           /\ conn' = [conn EXCEPT ![c] =
                  [Closed EXCEPT !.run = r, !.at = "read", !.left = MaxRequests]]
    /\ UNCHANGED <<up, holder, log, failures>>

ReadRequest(c) ==
    /\ conn[c].at = "read" /\ conn[c].left > 0
    /\ \E x \in Exchanges :
           conn' = [conn EXCEPT ![c].exchange = x, ![c].carries = x.request, ![c].dir = ">",
                                ![c].left = @ - 1, ![c].at = "note"]
    /\ UNCHANGED <<up, holder, log, failures>>

(* The client hung up, or claims a frame of no or of too many bytes; or    *)
(* there is no agent to connect to.                                        *)
HangUp(c) ==
    /\ conn[c].at = "read" \/ (conn[c].log = "ssh" /\ conn[c].at \in {"forward", "answer"})
    /\ Over(c)
    /\ UNCHANGED <<up, holder, log, failures>>

Forward(c) ==
    /\ conn[c].at = "forward"
    /\ Goto(c, "await")
    /\ UNCHANGED <<up, holder, log, failures>>

(* The agent answers, closes, or neither.                                  *)
AgentAnswers(c) ==
    /\ conn[c].at = "await"
    /\ \/ conn' = [conn EXCEPT ![c].carries = conn[c].exchange.reply, ![c].dir = "<",
                               ![c].at = "note"]
       \/ Over(c)
    /\ UNCHANGED <<up, holder, log, failures>>

AnswerClient(c) ==
    /\ conn[c].at = "answer" /\ conn[c].log = "ssh"
    /\ conn' = [conn EXCEPT ![c].at = "read", ![c].carries = Nothing,
                            ![c].exchange = Closed.exchange]
    /\ UNCHANGED <<up, holder, log, failures>>

-----------------------------------------------------------------------------
(* handle: one request of the open broker.                                 *)

(* What it is asked to open, by what check finds of it.                    *)
Verdict(word) == Wire(<<>>, Plain(word))

(* check and the opener, whichever verdict they come to.                   *)
AskOpen(c) ==
    /\ conn[c].at = "closed"
    /\ \E r \in Runs, word \in {"allow", "refuse", "error"} :
           /\ up[r]
           /\ conn' = [conn EXCEPT ![c] =
                  [Closed EXCEPT !.log = "open", !.run = r, !.at = "note", !.dir = "<",
                                 !.carries = Verdict(word)]]
    /\ UNCHANGED <<up, holder, log, failures>>

(* The caller hears of it after the log does, if it still listens.         *)
AnswerOpen(c) ==
    /\ conn[c].at = "answer" /\ conn[c].log = "open"
    /\ Over(c)
    /\ UNCHANGED <<up, holder, log, failures>>

-----------------------------------------------------------------------------
(* A run killed, or over: its threads stop where they are.                 *)
KillRun(r) ==
    /\ up[r] /\ failures < MaxFailures
    /\ failures' = failures + 1
    /\ up' = [up EXCEPT ![r] = FALSE]
    /\ conn' = [c \in Conns |-> IF conn[c].run = r THEN [conn[c] EXCEPT !.at = "over"]
                                ELSE conn[c]]
    /\ holder' = [holder EXCEPT ![r] = [k \in Logs |-> NoConn]]
    /\ UNCHANGED <<log>>

NoteStep(c) == LockLog(c) \/ WriteStart(c) \/ WriteEnd(c) \/ WriteFails(c)
ConnStep(c) ==
    \/ NoteStep(c) \/ Connect(c) \/ ReadRequest(c) \/ HangUp(c) \/ Forward(c)
    \/ AgentAnswers(c) \/ AnswerClient(c) \/ AskOpen(c) \/ AnswerOpen(c)

Next == (\E c \in Conns : ConnStep(c)) \/ (\E r \in Runs : KillRun(r))

(* Threads get to run, and to write their lines; no client and no agent    *)
(* has to do anything.                                                     *)
Spec == Init /\ [][Next]_vars
FairSpec == Spec /\ \A c \in Conns : WF_vars(NoteStep(c))

-----------------------------------------------------------------------------
(* Properties.                                                             *)

(* A line that another piece cuts in two has one of another run in it, or  *)
(* a write failed or a run died: the threads of one run do not mix their   *)
(* lines ("names each message on one line of `log`").  The next piece of a *)
(* run that began a line ends it, on the same message.                     *)
NextOfRun(k, i, j) ==
    /\ i < j /\ log[k][j].run = log[k][i].run
    /\ \A m \in i + 1 .. j - 1 : log[k][m].run # log[k][i].run
OneLineEachWithinRun ==
    failures = 0 =>
        \A k \in Logs : \A i, j \in DOMAIN log[k] :
            log[k][i].part = "start" /\ NextOfRun(k, i, j)
                => log[k][j] = [log[k][i] EXCEPT !.part = "end"]

(* A line names the message that was sent, by its keys, user and service,  *)
(* whatever comes after the fields it reads, and calls malformed what is.  *)
LinesNameMessages ==
    \A k \in Logs : \A i \in DOMAIN log[k] :
        k = "ssh" => Describe(log[k][i].sent.frame) = log[k][i].sent.means

(* A thread with a line to write gets to the end of it, although an agent  *)
(* never answers another connection ("ssh must never wait on the log").    *)
LogNeverBlocks == \A c \in Conns : conn[c].at = "note" ~> conn[c].at # "note"
=============================================================================
