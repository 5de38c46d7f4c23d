------------------------------ MODULE Protocol ------------------------------
(***************************************************************************)
(* Clients (client.c) and the server (server.c) over a stream socket.  A   *)
(* client sends a header, then the command; after a load command the size  *)
(* of the file, its lines and an end token.  It then waits for a status    *)
(* and for the text of the reply.  The server serves one connection at a   *)
(* time, until it is closed; the others wait in the socket's backlog.      *)
(*                                                                         *)
(* A client or the server can go at any point, and the other side finds    *)
(* out from its next call on the socket: a receive returns 0 once what was *)
(* sent has been read, or fails if the peer left data of its own unread; a *)
(* send raises SIGPIPE, which neither program handles, and kills it.       *)
(*                                                                         *)
(* What the commands do to the tables is in TableStore; here an effect is  *)
(* the number of rows that a command added.                                *)
(***************************************************************************)
EXTENDS Integers, Sequences, FiniteSets

CONSTANTS
  Clients,     \* client processes, each of which runs once
  MaxCommands, \* bound on the commands of all clients together
  Rows,        \* the rows of a file that is loaded
  Usage        \* what users do beyond typing well-formed commands

\* A client or the server may be killed; a command may have text after its end; the last line
\* of a file may lack its newline.
Usages == {"kill", "garbled", "open_end"}

ASSUME RowsAssumption  == MaxCommands \in Nat /\ Rows \in Nat \ {0}
ASSUME UsageAssumption == Usage \subseteq Usages

VARIABLES
  cl,      \* cl[c]: where client c is, its command, and the next line it sends
  up,      \* up[c]: what c sent and the server has not received
  down,    \* down[c]: what the server sent and c has not received
  hung,    \* connections that the server's side has closed
  reset,   \* connections closed by a client that left data unread
  backlog, \* connected clients that were not accepted
  srv,     \* where the server is, whom it serves, and the command at hand
  db,      \* the effects in the server's memory, in order
  disk,    \* the effects as last persisted
  ledger   \* history: the effects acknowledged to a client and not lost since

vars == <<cl, up, down, hung, reset, backlog, srv, db, disk, ledger>>

None == <<>> \* serving nobody

ASSUME ClientsAssumption == IsFiniteSet(Clients) /\ None \notin Clients

Kinds == {"query", "insert", "load", "shutdown"}
           \cup (IF "garbled" \in Usage THEN {"garbled"} ELSE {})

\* The lines of a load file, in order, and its end.
Lines == <<"names">> \o [k \in 1 .. Rows |-> "row"] \o <<"token">>
Stream ==
  IF "open_end" \in Usage
  THEN SubSeq(Lines, 1, Rows) \o <<"row_and_token">> \* "3,4feedface\n" is one line
  ELSE Lines

Idle == [at |-> "accept", cur |-> None, cmd |-> None, kind |-> "none", rows |-> 0]

Init == /\ cl = [c \in Clients |-> [at |-> "out", n |-> 0, kind |-> "none", line |-> 0]]
        /\ up = [c \in Clients |-> <<>>]
        /\ down = [c \in Clients |-> <<>>]
        /\ hung = {}
        /\ reset = {}
        /\ backlog = <<>>
        /\ srv = Idle
        /\ db = <<>>
        /\ disk = <<>>
        /\ ledger = {}
---------------------------------------------------------------------------
(* The client.                                                             *)

Server == <<hung, backlog, srv, db, disk>>

\* The command that c is at.
Cmd(c) == <<c, cl[c].n>>

\* c is gone, its socket closed, and what it did not read thrown away.
Leave(c) ==
  /\ cl' = [cl EXCEPT ![c] = [at |-> "gone", n |-> @.n, kind |-> "none", line |-> 0]]
  /\ reset' = IF down[c] # <<>> THEN reset \cup {c} ELSE reset
  /\ down' = [down EXCEPT ![c] = <<>>]
  /\ UNCHANGED <<up, Server, ledger>>

\* c sends an item and goes on, or is killed by SIGPIPE.
Send(c, item, next, line) ==
  IF c \in hung THEN Leave(c)
  ELSE /\ up' = [up EXCEPT ![c] = Append(@, item)]
       /\ cl' = [cl EXCEPT ![c].at = next, ![c].line = line]
       /\ UNCHANGED <<down, reset, Server, ledger>>

\* connect_client, while a server listens.
Connect(c) ==
  /\ cl[c].at = "out"
  /\ srv.at # "down"
  /\ cl' = [cl EXCEPT ![c].at = "ready"]
  /\ backlog' = Append(backlog, c)
  /\ UNCHANGED <<up, down, hung, reset, srv, db, disk, ledger>>

\* The commands typed so far.
Typed == { cmd \in Clients \X (1 .. MaxCommands) : cmd[2] <= cl[cmd[1]].n }

\* A line of input; of a load command the file is found and opened.
Type(c, kind) ==
  /\ cl[c].at = "ready"
  /\ Cardinality(Typed) < MaxCommands
  /\ cl' = [cl EXCEPT ![c].at = "header", ![c].n = @ + 1, ![c].kind = kind]
  /\ UNCHANGED <<up, down, reset, Server, ledger>>

SendHeader(c) ==
  /\ cl[c].at = "header"
  /\ Send(c, [type |-> "header", cmd |-> Cmd(c), kind |-> cl[c].kind], "command", 0)

SendCommand(c) ==
  /\ cl[c].at = "command"
  /\ Send(c, [type |-> "command", cmd |-> Cmd(c), kind |-> cl[c].kind],
          IF cl[c].kind = "load" THEN "size" ELSE "wait", 0)

SendSize(c) ==
  /\ cl[c].at = "size"
  /\ Send(c, [type |-> "size", cmd |-> Cmd(c), kind |-> "load"], "file", 1)

\* One line too many.
SendFilePastToken(c) ==
  /\ cl[c].at = "file"
  /\ Send(c, [type |-> Stream[cl[c].line], cmd |-> Cmd(c), kind |-> "load"],
          IF cl[c].line > Len(Stream) THEN "wait" ELSE "file", cl[c].line + 1)

\* sendfile, line by line, and the token that tells the server the file is done.
SendFile(c) ==
  /\ cl[c].at = "file"
  /\ Send(c, [type |-> Stream[cl[c].line], cmd |-> Cmd(c), kind |-> "load"],
          IF cl[c].line = Len(Stream) THEN "wait" ELSE "file", cl[c].line + 1)

\* The status of the reply; after that of a shutdown the client ends.
RecvStatus(c) ==
  /\ cl[c].at = "wait"
  /\ down[c] # <<>>
  /\ cl' = [cl EXCEPT ![c].at = IF Head(down[c]).kind = "shutdown" THEN "gone" ELSE "text",
                       ![c].kind = "none", ![c].line = 0]
  /\ down' = [down EXCEPT ![c] = Tail(@)]
  /\ ledger' = IF cl[c].kind \in {"insert", "load"} /\ c \notin hung
               THEN ledger \cup {Cmd(c)} ELSE ledger
  /\ UNCHANGED <<up, reset, Server>>

\* The text of the reply, printed.
RecvText(c) ==
  /\ cl[c].at = "text"
  /\ down[c] # <<>>
  /\ cl' = [cl EXCEPT ![c].at = "ready"]
  /\ down' = [down EXCEPT ![c] = Tail(@)]
  /\ UNCHANGED <<up, reset, Server, ledger>>

\* The server closed the connection: exit(1).  While waiting for the text the
\* client takes its absence for an empty one, and is as good as ready.
RecvEnd(c) ==
  /\ c \in hung
  /\ down[c] = <<>>
  /\ \/ cl[c].at = "wait" /\ Leave(c)
     \/ /\ cl[c].at = "text"
        /\ cl' = [cl EXCEPT ![c].at = "ready"]
        /\ UNCHANGED <<up, down, reset, Server, ledger>>

\* The end of the input.
Quit(c) == cl[c].at = "ready" /\ Leave(c)

Kill(c) == "kill" \in Usage /\ cl[c].at \notin {"out", "gone"} /\ Leave(c)

Gone(c) == cl[c].at = "gone"
---------------------------------------------------------------------------
(* The server.                                                             *)

\* The ids of the commands behind a sequence of effects.
Ids(effects) == { effects[k].cmd : k \in DOMAIN effects }

\* The process ends, and with it all connections, what they hold, and its memory.
End(saved, kept) ==
  /\ srv' = [Idle EXCEPT !.at = "down"]
  /\ hung' = hung \cup { c \in Clients : cl[c].at \notin {"out", "gone"} }
  /\ backlog' = <<>>
  /\ up' = [c \in Clients |-> <<>>]
  /\ db' = <<>>
  /\ disk' = saved
  /\ ledger' = kept
  /\ UNCHANGED <<cl, down, reset>>

\* An end that loses what was not persisted.
Die == End(disk, ledger \cap Ids(disk))

\* The load of what was persisted, at the start of a server.
Start ==
  /\ srv.at = "down"
  /\ srv' = Idle
  /\ db' = disk
  /\ UNCHANGED <<cl, up, down, hung, reset, backlog, disk, ledger>>

Accept ==
  /\ srv.at = "accept"
  /\ backlog # <<>>
  /\ srv' = [srv EXCEPT !.at = "header", !.cur = Head(backlog)]
  /\ backlog' = Tail(backlog)
  /\ UNCHANGED <<cl, up, down, hung, reset, db, disk, ledger>>

\* The next item of the connection is taken and the server goes on at next.
Take(next) ==
  /\ up' = [up EXCEPT ![srv.cur] = Tail(@)]
  /\ srv' = next
  /\ UNCHANGED <<cl, down, hung, reset, backlog, disk, ledger>>

Received == up[srv.cur] # <<>>
Closed   == up[srv.cur] = <<>> /\ Gone(srv.cur)

\* handle_client, the header: length 0 ends the session, an error the process.
RecvHeader ==
  /\ srv.at = "header"
  /\ \/ Received /\ Take([srv EXCEPT !.at = "command"]) /\ UNCHANGED db
     \/ Closed /\ srv.cur \in reset /\ Die
     \/ /\ Closed /\ srv.cur \notin reset
        /\ srv' = [srv EXCEPT !.at = "accept", !.cur = None]
        /\ hung' = hung \cup {srv.cur}
        /\ UNCHANGED <<cl, up, down, reset, backlog, db, disk, ledger>>

\* parse_command and execute_db_operator.  Text after a complete command is a
\* syntax error when the command has already put its reply into the message, and
\* yyerror's second add_payload fails an assertion.
Execute(next) ==
  CASE next.kind = "load"    -> srv' = [next EXCEPT !.at = "size"] /\ db' = db
    [] next.kind = "insert"  -> /\ srv' = [next EXCEPT !.at = "status"]
                                /\ db' = Append(db, [cmd |-> next.cmd, kind |-> "insert", rows |-> 1])
    [] OTHER                 -> srv' = [next EXCEPT !.at = "status"] /\ db' = db

\* The command.  The result of this receive is not looked at: from a client that
\* is gone the server parses what the buffer on the stack has been left with, an
\* unknown command or the last one again.
RecvCommand ==
  /\ srv.at = "command"
  /\ \/ /\ Received
        /\ LET item == Head(up[srv.cur])
           IN  IF item.kind = "garbled" THEN Die
               ELSE /\ Execute([srv EXCEPT !.cmd = item.cmd, !.kind = item.kind])
                    /\ up' = [up EXCEPT ![srv.cur] = Tail(@)]
                    /\ UNCHANGED <<cl, down, hung, reset, backlog, disk, ledger>>
     \/ /\ Closed
        /\ \E kind \in {"query", srv.kind} \ {"none"} : Execute([srv EXCEPT !.kind = kind])
        /\ UNCHANGED <<cl, up, down, hung, reset, backlog, disk, ledger>>

\* load: the size, without which the server exits.
RecvSize ==
  /\ srv.at = "size"
  /\ \/ Received /\ Take([srv EXCEPT !.at = "names"]) /\ UNCHANGED db
     \/ Closed /\ Die

\* The first line names the columns; without it their lookup fails an assertion.
RecvNames ==
  /\ srv.at = "names"
  /\ \/ Received /\ Take([srv EXCEPT !.at = "rows"]) /\ UNCHANGED db
     \/ Closed /\ Die

\* A loop of load that stops at a row count and leaves the token unread.
RecvRowCounting ==
  /\ srv.at = "rows"
  /\ Received
  /\ Take([srv EXCEPT !.rows = @ + 1, !.at = IF srv.rows + 1 = Rows THEN "status" ELSE "rows"])
  /\ db' = IF srv.rows + 1 = Rows THEN Append(db, [cmd |-> srv.cmd, kind |-> "load", rows |-> Rows]) ELSE db

\* A loop of load that takes the token for a row.
RecvRowAny ==
  /\ srv.at = "rows"
  /\ Received
  /\ Take([srv EXCEPT !.rows = @ + 1])
  /\ UNCHANGED db

\* A row; a last row without a newline has swallowed the token.
RecvRow ==
  /\ srv.at = "rows"
  /\ Received
  /\ Head(up[srv.cur]).type # "token"
  /\ Take([srv EXCEPT !.rows = @ + 1])
  /\ UNCHANGED db

\* The token, or the end of the connection, ends the load: the rows so far are
\* appended to the columns.
EndLoad ==
  /\ srv.at = "rows"
  /\ \/ /\ Received
        /\ Head(up[srv.cur]).type = "token"
        /\ up' = [up EXCEPT ![srv.cur] = Tail(@)]
     \/ Closed /\ up' = up
  /\ srv' = [srv EXCEPT !.at = "status", !.rows = 0]
  /\ db' = Append(db, [cmd |-> srv.cmd, kind |-> "load", rows |-> srv.rows])
  /\ UNCHANGED <<cl, down, hung, reset, backlog, disk, ledger>>

\* A server that takes a failed send for the end of the session.
ReplyIgnoringSigpipe(item, next) ==
  IF Gone(srv.cur)
  THEN /\ srv' = [srv EXCEPT !.at = "accept", !.cur = None]
       /\ hung' = hung \cup {srv.cur}
       /\ UNCHANGED <<cl, up, down, reset, backlog, db, disk, ledger>>
  ELSE /\ down' = [down EXCEPT ![srv.cur] = Append(@, item)]
       /\ srv' = [srv EXCEPT !.at = next]
       /\ UNCHANGED <<cl, up, hung, reset, backlog, db, disk, ledger>>

\* A send to the client: SIGPIPE kills the server if it is gone.
Reply(item, next) ==
  IF Gone(srv.cur) THEN Die
  ELSE /\ down' = [down EXCEPT ![srv.cur] = Append(@, item)]
       /\ srv' = [srv EXCEPT !.at = next]
       /\ UNCHANGED <<cl, up, hung, reset, backlog, db, disk, ledger>>

\* The status; after that of a shutdown the session is over and no text is sent.
SendStatus ==
  /\ srv.at = "status"
  /\ Reply([type |-> "status", cmd |-> srv.cmd, kind |-> srv.kind],
           IF srv.kind = "shutdown" THEN "persist" ELSE "text")

SendText ==
  /\ srv.at = "text"
  /\ Reply([type |-> "text", cmd |-> srv.cmd, kind |-> srv.kind], "header")

\* drop_dbs before persist.
DropAndPersist == srv.at = "persist" /\ End(<<>>, ledger)

\* The end of main after a shutdown: persist, drop_dbs and return.
Persist == srv.at = "persist" /\ End(db, ledger)

\* The server is killed, though not while it writes its files.
Crash == "kill" \in Usage /\ srv.at \notin {"down", "persist"} /\ Die
---------------------------------------------------------------------------
ClientStep(c) ==
  \/ SendHeader(c) \/ SendCommand(c) \/ SendSize(c) \/ SendFile(c)
  \/ RecvStatus(c) \/ RecvText(c) \/ RecvEnd(c)
ServerStep ==
  \/ Accept \/ RecvHeader \/ RecvCommand \/ RecvSize \/ RecvNames \/ RecvRow \/ EndLoad
  \/ SendStatus \/ SendText \/ Persist

Next ==
  \/ \E c \in Clients :
       \/ Connect(c)
       \/ \E kind \in Kinds : Type(c, kind)
       \/ SendHeader(c)
       \/ SendCommand(c)
       \/ SendSize(c)
       \/ SendFile(c)
       \/ RecvStatus(c)
       \/ RecvText(c)
       \/ RecvEnd(c)
       \/ Quit(c)
       \/ Kill(c)
  \/ Start
  \/ Accept
  \/ RecvHeader
  \/ RecvCommand
  \/ RecvSize
  \/ RecvNames
  \/ RecvRow
  \/ EndLoad
  \/ SendStatus
  \/ SendText
  \/ Persist
  \/ Crash

\* The operating system runs both programs.  Users owe nothing: they need not
\* type, quit, kill, connect or start a server.
Spec == Init /\ [][Next]_vars /\ WF_vars(ServerStep)
             /\ \A c \in Clients : WF_vars(ClientStep(c))
---------------------------------------------------------------------------
(* The properties.                                                         *)

Effect == [cmd : Clients \X (1 .. MaxCommands), kind : {"insert", "load"}, rows : 0 .. Rows + 1]

TypeOK ==
  /\ \A c \in Clients :
       /\ cl[c].at \in {"out", "ready", "header", "command", "size", "file", "wait", "text", "gone"}
       /\ cl[c].n \in 0 .. MaxCommands
       /\ cl[c].kind \in Kinds \cup {"none"}
       /\ cl[c].at = "file" => cl[c].line \in DOMAIN Stream
  /\ hung \subseteq Clients /\ reset \subseteq Clients
  /\ backlog \in Seq(Clients)
  /\ srv.at \in {"accept", "header", "command", "size", "names", "rows", "status", "text",
                 "persist", "down"}
  /\ srv.at \in {"accept", "down"} <=> srv.cur = None
  /\ db \in Seq(Effect) /\ disk \in Seq(Effect)
  /\ ledger \subseteq Clients \X (1 .. MaxCommands)

\* The two ends of a connection agree on what comes next: the server finds the
\* item that it expects, though nothing in the stream says of what type the next
\* bytes are, and a client is only ever sent the reply to the command it is at.
InStep ==
  /\ srv.at \in {"header", "command", "size", "names"} /\ Received =>
       Head(up[srv.cur]).type = srv.at
  /\ \A c \in Clients :
       /\ \A k \in DOMAIN down[c] : down[c][k].cmd = Cmd(c)
       /\ down[c] # <<>> => cl[c].at \in {"wait", "text", "gone"}
       /\ down[c] # <<>> /\ cl[c].at = "wait" => Head(down[c]).type = "status"
       /\ down[c] # <<>> /\ cl[c].at = "text" => Head(down[c]).type = "text"

\* What is persisted holds each command at most once, those of a client in the
\* order it sent them, and loads with all of their rows: though the server loads
\* the rows it got from a client that went away, and may run a command again
\* from its old buffer, it then dies of its own reply.
SavedWhole ==
  /\ \A k \in DOMAIN disk : disk[k].rows = IF disk[k].kind = "load" THEN Rows ELSE 1
  /\ \A j, k \in DOMAIN disk :
       j < k /\ disk[j].cmd[1] = disk[k].cmd[1] => disk[j].cmd[2] < disk[k].cmd[2]

\* What was acknowledged to a client and not lost by an unorderly end is in the
\* database, in memory or on disk, through shutdowns and new servers.
LedgerKept == ledger \subseteq Ids(IF srv.at = "down" THEN disk ELSE db)

\* A client that is being served and waits for its reply gets it, or learns that
\* there will be none.
Answered ==
  \A c \in Clients :
    (cl[c].at \in {"wait", "text"} /\ srv.cur = c) ~> (cl[c].at \notin {"wait", "text"})
=============================================================================
