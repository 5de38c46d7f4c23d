-------------------------- MODULE Protocol_proofs ---------------------------
(***************************************************************************)
(* Invariants of Protocol, for every value of its constants.               *)
(*                                                                         *)
(* The invariant speaks of one connection at a time, as a relation between *)
(* the client, what is under way in both directions, and the server.  A    *)
(* step is a step of one client, or of the server with the client that it  *)
(* serves, and leaves all other connections as they are.                   *)
(***************************************************************************)
EXTENDS Protocol, SequenceTheorems, FiniteSetTheorems, TLAPS

---------------------------------------------------------------------------
(* The invariant.                                                          *)

\* What one command puts on the stream: all of it, and how much of it for each kind.
Script == <<"header", "command", "size">> \o Stream
Length(kind) == IF kind = "load" THEN 3 + Len(Stream) ELSE 2

Parts == {"header", "command", "size", "names", "row", "token", "row_and_token", "status", "text"}
Commands == Clients \X (1 .. MaxCommands)
Item == [type : Parts, cmd : Commands, kind : Kinds]

ClientStages == {"out", "ready", "header", "command", "size", "file", "wait", "text", "gone"}
Sending      == {"header", "command", "size", "file", "wait"}
ServerStages == {"accept", "header", "command", "size", "names", "rows", "status", "text",
                 "persist", "down"}
Reading      == {"header", "command", "size", "names", "rows"}
Answering    == {"status", "text", "persist"}

ClientState == [at : ClientStages, n : 0 .. MaxCommands, kind : Kinds \cup {"none"}, line : Nat]
ServerState == [at : ServerStages, cur : Clients \cup {None}, cmd : Commands \cup {None},
                kind : Kinds \cup {"none"}, rows : 0 .. Rows]

ServerOK(s) ==
  /\ s \in ServerState
  /\ s.at \in {"accept", "down"} <=> s.cur = None
  /\ s.at # "rows" => s.rows = 0
  /\ s.at \in {"size", "names", "rows"} => s.kind = "load"
  /\ s.at = "persist" => s.kind = "shutdown"
  /\ s.at = "text" => s.kind # "shutdown"
  /\ s.kind \in {"insert", "load"} => s.cmd # None
  /\ s.at \in Answering => s.kind # "none"

Types ==
  /\ cl \in [Clients -> ClientState]
  /\ up \in [Clients -> Seq(Item)]
  /\ down \in [Clients -> Seq(Item)]
  /\ hung \subseteq Clients
  /\ reset \subseteq Clients
  /\ backlog \in Seq(Clients)
  /\ ServerOK(srv)
  /\ db \in Seq(Effect)
  /\ disk \in Seq(Effect)
  /\ ledger \subseteq Commands

\* How many items of its command client k has sent.
Sent(k) == CASE k.at = "header"  -> 0
             [] k.at = "command" -> 1
             [] k.at = "size"    -> 2
             [] k.at = "file"    -> 2 + k.line
             [] OTHER            -> Length(k.kind)

\* How many items of c's command the server s has taken.
Taken(c, s) == IF s.cur # c THEN 0
               ELSE CASE s.at = "command" -> 1
                      [] s.at = "size"    -> 2
                      [] s.at = "names"   -> 3
                      [] s.at = "rows"    -> 4 + s.rows
                      [] OTHER            -> 0

\* What is under way, u, continues the command where the server is.
Underway(c, k, u, s) ==
  /\ \A i \in 1 .. Len(u) : u[i] = [type |-> Script[Taken(c, s) + i], cmd |-> <<c, k.n>>, kind |-> u[1].kind]
  /\ u # <<>> => /\ Taken(c, s) + Len(u) <= Length(u[1].kind)
                 /\ s.cur = c => s.at \in Reading
                 /\ Taken(c, s) >= 2 => u[1].kind = "load"

\* What client k was sent and has not read, d, is of the reply that it waits for.
Replies(c, k, d) ==
  /\ \A i \in 1 .. Len(d) : d[i].cmd = <<c, k.n>>
  /\ d # <<>> => k.at \in {"wait", "text"}
  /\ k.at = "wait" => /\ Len(d) <= 2
                      /\ Len(d) >= 1 => d[1].type = "status" /\ d[1].kind = k.kind
                      /\ Len(d) = 2 => d[2].type = "text" /\ k.kind # "shutdown"
  /\ k.at = "text" => /\ Len(d) <= 1
                      /\ Len(d) = 1 => d[1].type = "text"

\* The server has not had all of k's command.
Pending(c, k, d, s) ==
  k.at \in Sending /\ d = <<>> /\ (s.cur = c => s.at \in Reading)

\* Server and client are at the same command, and what is between them is what
\* one has done and the other not.
Abreast(c, k, u, d, s) ==
  /\ k.at = "ready" => u = <<>> /\ (s.cur = c => s.at = "header")
  /\ k.at = "text" => /\ s.cur = c /\ u = <<>>
                      /\ \/ s.at = "text" /\ d = <<>> /\ s.cmd = <<c, k.n>>
                         \/ s.at = "header" /\ Len(d) = 1
  /\ k.at \in Sending =>
       IF Pending(c, k, d, s)
       THEN /\ Taken(c, s) + Len(u) = Sent(k)
            /\ u # <<>> => u[1].kind = k.kind
            /\ Taken(c, s) >= 2 => k.kind = "load" /\ s.cmd = <<c, k.n>>
       ELSE /\ k.at = "wait" /\ s.cur = c /\ u = <<>>
            /\ \/ s.at = "status" /\ d = <<>>
               \/ s.at \in {"text", "persist"} /\ Len(d) = 1
               \/ s.at = "header" /\ Len(d) = 2
            /\ s.at # "header" => s.kind = k.kind /\ s.cmd = <<c, k.n>>

\* One connection: client k, the items u and replies d between it and server s, and
\* H the connections that the server's side has hung up.
Connection(c, k, u, d, H, s) ==
  /\ k.at = "out" => u = <<>> /\ d = <<>> /\ c \notin H /\ s.cur # c
  /\ c \in H => u = <<>> /\ s.cur # c
  /\ k.at \in Sending \cup {"ready", "text"} /\ s.at = "down" => c \in H
  /\ k.at \in Sending => k.kind \in Kinds
  /\ k.at \in Sending \cup {"text"} => k.n > 0
  /\ k.at \in {"size", "file"} => k.kind = "load"
  /\ k.at = "file" => k.line \in 1 .. Len(Stream)
  /\ Underway(c, k, u, s)
  /\ Replies(c, k, d)
  /\ k.at \notin {"out", "gone"} /\ c \notin H => Abreast(c, k, u, d, s)

Connections == \A c \in Clients : Connection(c, cl[c], up[c], down[c], hung, srv)

\* The backlog holds connected clients, once each, and the one being served no more.
Queue ==
  /\ \A i \in 1 .. Len(backlog) :
       cl[backlog[i]].at # "out" /\ backlog[i] \notin hung /\ backlog[i] # srv.cur
  /\ \A i, j \in 1 .. Len(backlog) : backlog[i] = backlog[j] => i = j

\* SavedWhole, of any effects.
Whole(effects) ==
  /\ \A k \in DOMAIN effects : effects[k].rows = IF effects[k].kind = "load" THEN Rows ELSE 1
  /\ \A j, k \in DOMAIN effects :
       j < k /\ effects[j].cmd[1] = effects[k].cmd[1] => effects[j].cmd[2] < effects[k].cmd[2]

\* All effects are of commands that were typed.
Known(effects) == \A k \in DOMAIN effects : effects[k].cmd[2] <= cl[effects[k].cmd[1]].n

\* The server will die of its next step.
Doomed == srv.at = "status" /\ cl[srv.cur].at = "gone"

Effects ==
  /\ Known(db) /\ Known(disk)
  /\ Whole(disk)
  /\ srv.kind \in {"insert", "load"} => srv.cmd[2] <= cl[srv.cmd[1]].n
  /\ Doomed \/
       /\ Whole(db)
       /\ \A c \in Clients \ hung : Pending(c, cl[c], down[c], srv) =>
            \A k \in DOMAIN db : db[k].cmd[1] = c => db[k].cmd[2] < cl[c].n

Acknowledged ==
  /\ ledger \subseteq Ids(IF srv.at = "down" THEN disk ELSE db)
  /\ \A c \in Clients \ hung :
       cl[c].at = "wait" /\ cl[c].kind \in {"insert", "load"} /\ ~Pending(c, cl[c], down[c], srv) =>
         <<c, cl[c].n>> \in Ids(db)

IInv == Types /\ Connections /\ Queue /\ Effects /\ Acknowledged

---------------------------------------------------------------------------
(* The stream of a command.                                                *)

LEMMA Joined ==
  ASSUME NEW S, NEW s \in Seq(S), NEW t \in Seq(S), NEW u, u = s \o t
  PROVE  /\ u \in Seq(S) /\ Len(u) = Len(s) + Len(t)
         /\ \A i \in 1 .. Len(s) : u[i] = s[i]
         /\ \A i \in 1 .. Len(t) : u[Len(s) + i] = t[i]
  OBVIOUS

\* The first line of a load names the columns; the token comes after all rows, if at all.
LEMMA StreamShape ==
  /\ Stream \in Seq(Parts)
  /\ Len(Stream) >= 2 /\ Len(Stream) <= Rows + 2
  /\ Stream[1] = "names"
  /\ \A i \in 1 .. Len(Stream) : Stream[i] = "token" <=> i = Rows + 2
  <1> DEFINE file == [k \in 1 .. Rows |-> "row"]
             names == <<"names">>
             token == <<"token">>
             first == names \o file
             last == <<"row_and_token">>
             front == SubSeq(Lines, 1, Rows)
  <1>1. Rows \in Nat /\ Rows >= 1
    BY RowsAssumption
  <1>2. /\ names \in Seq(Parts) /\ token \in Seq(Parts) /\ last \in Seq(Parts)
        /\ file \in Seq(Parts)
    <2>1. file \in [1 .. Rows -> Parts]
      BY DEF Parts
    <2> QED
      BY <1>1, <2>1 DEF Parts
  <1>3. /\ Len(names) = 1 /\ names[1] = "names" /\ Len(token) = 1 /\ token[1] = "token"
        /\ Len(last) = 1 /\ last[1] = "row_and_token"
        /\ Len(file) = Rows /\ \A i \in 1 .. Rows : file[i] = "row"
    BY <1>1
  <1>4. Lines = first \o token
    BY DEF Lines
  <1> HIDE DEF file, names, token, last
  <1>5. /\ first \in Seq(Parts) /\ Len(first) = Len(names) + Len(file)
        /\ \A i \in 1 .. Len(names) : first[i] = names[i]
        /\ \A i \in 1 .. Len(file) : first[Len(names) + i] = file[i]
    BY <1>2
  <1> HIDE DEF first
  <1>6. /\ Lines \in Seq(Parts) /\ Len(Lines) = Len(first) + Len(token)
        /\ \A i \in 1 .. Len(first) : Lines[i] = first[i]
        /\ \A i \in 1 .. Len(token) : Lines[Len(first) + i] = token[i]
    <2>1. first \in Seq(Parts)
      BY <1>5
    <2> QED
      BY <1>2, <1>4, <2>1, Joined
  <1>7. Len(Lines) = Rows + 2 /\ Lines[1] = "names" /\ Lines[Rows + 2] = "token"
    BY <1>1, <1>3, <1>5, <1>6
  <1>8. ASSUME NEW i \in 2 .. Rows + 1
        PROVE  Lines[i] = "row"
    <2>1. i - 1 \in 1 .. Rows /\ 1 + (i - 1) = i
      BY <1>1
    <2>2. first[1 + (i - 1)] = file[i - 1]
      BY <1>3, <1>5, <2>1
    <2> QED
      BY <1>1, <1>3, <1>5, <1>6, <2>1, <2>2
  <1>9. CASE "open_end" \in Usage
    <2>1. /\ front \in Seq(Parts) /\ Len(front) = Rows
          /\ \A i \in 1 .. Rows : front[i] = Lines[i]
      BY <1>1, <1>6, <1>7, SubSeqProperties
    <2>2. Stream = front \o last
      BY <1>9 DEF Stream, last
    <2> HIDE DEF front
    <2>3. /\ Stream \in Seq(Parts) /\ Len(Stream) = Len(front) + Len(last)
          /\ \A i \in 1 .. Len(front) : Stream[i] = front[i]
          /\ \A i \in 1 .. Len(last) : Stream[Len(front) + i] = last[i]
      <3>1. front \in Seq(Parts)
        BY <2>1
      <3> QED
        BY <1>2, <2>2, <3>1, Joined
    <2>4. ASSUME NEW i \in 1 .. Len(Stream)
          PROVE  Stream[i] # "token" /\ i # Rows + 2
      <3>1. CASE i = Rows + 1
        BY <1>1, <1>3, <2>1, <2>3, <3>1
      <3>2. CASE i \in 1 .. Rows
        BY <1>1, <1>7, <1>8, <2>1, <2>3, <3>2
      <3> QED
        BY <1>1, <1>3, <2>1, <2>3, <3>1, <3>2
    <2> QED
      BY <1>1, <1>3, <1>7, <2>1, <2>3, <2>4
  <1>10. CASE "open_end" \notin Usage
    <2>1. Stream = Lines
      BY <1>10 DEF Stream
    <2> QED
      BY <1>1, <1>6, <1>7, <1>8, <2>1
  <1> QED
    BY <1>9, <1>10

\* The header, the command and the size come before the lines.
LEMMA ScriptShape ==
  /\ Len(Script) = 3 + Len(Stream) /\ Len(Stream) \in Nat
  /\ Script[1] = "header" /\ Script[2] = "command" /\ Script[3] = "size"
  /\ \A i \in 1 .. Len(Stream) : Script[3 + i] = Stream[i]
  /\ \A i \in 1 .. Len(Script) : Script[i] \in Parts
  <1> DEFINE begin == <<"header", "command", "size">>
  <1>1. begin \in Seq(Parts)
    BY DEF Parts
  <1>2. Len(begin) = 3 /\ begin[1] = "header" /\ begin[2] = "command" /\ begin[3] = "size"
    OBVIOUS
  <1>3. Script = begin \o Stream
    BY DEF Script
  <1>4. Stream \in Seq(Parts)
    BY StreamShape
  <1> HIDE DEF begin
  <1>5. /\ Script \in Seq(Parts) /\ Len(Script) = Len(begin) + Len(Stream)
        /\ \A i \in 1 .. Len(begin) : Script[i] = begin[i]
        /\ \A i \in 1 .. Len(Stream) : Script[Len(begin) + i] = Stream[i]
    BY <1>1, <1>3, <1>4, Joined
  <1> QED
    BY <1>2, <1>4, <1>5

---------------------------------------------------------------------------
(* What the two kinds of steps keep.                                       *)

USE ClientsAssumption

LEMMA TailShape ==
  ASSUME NEW S, NEW s \in Seq(S), s # <<>>
  PROVE  /\ Tail(s) \in Seq(S) /\ Len(Tail(s)) = Len(s) - 1
         /\ \A i \in 1 .. Len(Tail(s)) : Tail(s)[i] = s[i + 1]
         /\ Head(s) = s[1] /\ Len(s) \in Nat /\ Len(s) >= 1
         /\ Len(Tail(s)) = 0 => Tail(s) = <<>>
  <1>1. Tail(s) \in Seq(S) /\ Len(Tail(s)) = Len(s) - 1
    OBVIOUS
  <1>2. Len(Tail(s)) = 0 => Tail(s) = <<>>
    BY <1>1, EmptySeq
  <1> QED
    BY <1>1, <1>2

\* A connection that the server does not serve is not affected by what it does.
LEMMA Unserved ==
  ASSUME NEW c, NEW k, NEW u, NEW d, NEW H, NEW s, NEW G, NEW t,
         Connection(c, k, u, d, H, s), s.cur # c, t.cur # c,
         c \in G <=> c \in H, t.at = "down" => s.at = "down"
  PROVE  Connection(c, k, u, d, G, t)
  BY DEF Connection, Underway, Abreast, Pending, Taken

\* An effect is of some client's command.
LEMMA EffectShape ==
  ASSUME NEW effects \in Seq(Effect), NEW i \in DOMAIN effects
  PROVE  /\ effects[i] \in Effect
         /\ effects[i].cmd[1] \in Clients
         /\ effects[i].cmd[2] \in 1 .. MaxCommands
  <1>1. effects[i] \in Effect
    BY ElementOfSeq
  <1> QED
    BY <1>1 DEF Effect

\* A step of client c, to state k with u and d under way.  It counts for the effects
\* only that c does not get to a command that was executed before, and for what is
\* acknowledged that a command counts as executed only once it has had its effect.
LEMMA ClientKeeps ==
  ASSUME IInv, NEW c \in Clients,
         NEW k \in ClientState, NEW u \in Seq(Item), NEW d \in Seq(Item),
         cl' = [cl EXCEPT ![c] = k],
         up' = [up EXCEPT ![c] = u],
         down' = [down EXCEPT ![c] = d],
         UNCHANGED <<hung, srv, db, disk>>,
         reset' \subseteq Clients,
         \/ backlog' = backlog
         \/ backlog' = Append(backlog, c) /\ cl[c].at = "out",
         Connection(c, k, u, d, hung, srv),
         k.at # "out",
         cl[c].at = "gone" => k.at = "gone",
         k.n >= cl[c].n,
         c \notin hung /\ Pending(c, k, d, srv) =>
           k.n > cl[c].n \/ (k.n = cl[c].n /\ Pending(c, cl[c], down[c], srv)),
         c \notin hung /\ k.at = "wait" /\ k.kind \in {"insert", "load"} /\ ~Pending(c, k, d, srv) =>
           <<c, k.n>> \in Ids(db),
         ledger' \subseteq Commands,
         ledger' \subseteq Ids(IF srv.at = "down" THEN disk ELSE db)
  PROVE  IInv'
  <1> USE DEF IInv
  <1>1. /\ cl'[c] = k /\ up'[c] = u /\ down'[c] = d
        /\ \A x \in Clients : x # c => cl'[x] = cl[x] /\ up'[x] = up[x] /\ down'[x] = down[x]
    BY DEF Types
  <1>2. Types'
    <2>1. cl' \in [Clients -> ClientState] /\ up' \in [Clients -> Seq(Item)] /\ down' \in [Clients -> Seq(Item)]
      BY DEF Types
    <2>2. backlog' \in Seq(Clients)
      <3>1. Append(backlog, c) \in Seq(Clients)
        BY AppendProperties DEF Types
      <3> QED
        BY <3>1 DEF Types
    <2> QED
      BY <2>1, <2>2 DEF Types
  <1>3. Connections'
    <2> SUFFICES ASSUME NEW x \in Clients
                 PROVE  Connection(x, cl'[x], up'[x], down'[x], hung, srv)
      BY DEF Connections
    <2>1. CASE x = c
      BY <1>1, <2>1
    <2>2. CASE x # c
      BY <1>1, <2>2 DEF Connections
    <2> QED
      BY <2>1, <2>2
  <1>4. Queue'
    <2>1. CASE backlog' = backlog
      BY <1>1, <2>1 DEF Queue, Types
    <2>2. CASE backlog' = Append(backlog, c) /\ cl[c].at = "out"
      <3>1. /\ Len(backlog') = Len(backlog) + 1 /\ backlog'[Len(backlog) + 1] = c
            /\ \A i \in 1 .. Len(backlog) : backlog'[i] = backlog[i]
            /\ Len(backlog) \in Nat
        BY <2>2, AppendProperties DEF Types
      <3>2. \A i \in 1 .. Len(backlog) : backlog[i] # c /\ backlog[i] \in Clients
        BY SMTT(30), <2>2 DEF Queue, Types
      <3>3. c \notin hung /\ c # srv.cur
        BY <2>2 DEF Connections, Connection
      <3>4. ASSUME NEW i \in 1 .. Len(backlog) + 1
            PROVE  cl'[backlog'[i]].at # "out" /\ backlog'[i] \notin hung /\ backlog'[i] # srv.cur
        BY <1>1, <3>1, <3>2, <3>3 DEF Queue
      <3>5. ASSUME NEW i \in 1 .. Len(backlog) + 1, NEW j \in 1 .. Len(backlog) + 1,
                   backlog'[i] = backlog'[j]
            PROVE  i = j
        BY <3>1, <3>2, <3>5 DEF Queue
      <3> QED
        BY <3>1, <3>4, <3>5 DEF Queue
    <2> QED
      BY <2>1, <2>2
  <1>5. \A x \in Clients : cl'[x].n >= cl[x].n /\ cl[x].n \in Nat /\ cl'[x].n \in Nat
    BY SMTT(30), <1>1 DEF Types, ClientState
  <1>6. Effects'
    <2>1. Known(db)' /\ Known(disk)'
      <3>1. \A i \in DOMAIN db : db[i].cmd[1] \in Clients /\ db[i].cmd[2] \in Nat
        BY SMTT(30), RowsAssumption, EffectShape DEF Types
      <3>2. \A i \in DOMAIN disk : disk[i].cmd[1] \in Clients /\ disk[i].cmd[2] \in Nat
        BY SMTT(30), RowsAssumption, EffectShape DEF Types
      <3>3. Known(db)'
        BY <1>5, <3>1 DEF Effects, Known
      <3>4. Known(disk)'
        BY <1>5, <3>2 DEF Effects, Known
      <3> QED
        BY <3>3, <3>4
    <2>2. srv.kind \in {"insert", "load"} => srv.cmd[2] <= cl'[srv.cmd[1]].n
      <3> SUFFICES ASSUME srv.kind \in {"insert", "load"}
                   PROVE  srv.cmd[2] <= cl'[srv.cmd[1]].n
        OBVIOUS
      <3>1. srv.cmd \in Commands
        BY DEF Types, ServerOK, ServerState
      <3> QED
        BY <1>5, <3>1 DEF Effects, Commands
    <2>3. CASE Doomed
      <3>1. srv.cur \in Clients
        BY <2>3 DEF Doomed, Types, ServerOK, ServerState
      <3>2. Doomed'
        BY <1>1, <2>3, <3>1 DEF Doomed
      <3> QED
        BY <2>1, <2>2, <3>2 DEF Effects, Whole
    <2>4. CASE ~Doomed
      <3>1. Whole(db)
        BY <2>4 DEF Effects
      <3>2. ASSUME NEW x \in Clients \ hung, Pending(x, cl'[x], down'[x], srv),
                   NEW i \in DOMAIN db, db[i].cmd[1] = x
            PROVE  db[i].cmd[2] < cl'[x].n
        <4>1. db[i].cmd[2] \in Nat /\ db[i].cmd[2] <= cl[x].n
          <5>1. db \in Seq(Effect) /\ i \in DOMAIN db
            BY <3>2 DEF Types
          <5>2. db[i].cmd[2] \in 1 .. MaxCommands
            BY <5>1, EffectShape
          <5>3. db[i].cmd[2] <= cl[db[i].cmd[1]].n
            BY <5>1 DEF Effects, Known
          <5> QED
            BY <3>2, <5>2, <5>3
        <4>2. CASE x = c /\ k.n > cl[c].n
          BY <1>1, <1>5, <4>1, <4>2
        <4>3. CASE Pending(x, cl[x], down[x], srv) /\ cl'[x].n = cl[x].n
          BY <2>4, <3>2, <4>3 DEF Effects
        <4> QED
          BY <1>1, <3>2, <4>2, <4>3
      <3> QED
        BY <2>1, <2>2, <3>1, <3>2 DEF Effects, Whole
    <2> QED
      BY <2>3, <2>4
  <1>7. Acknowledged'
    <2> SUFFICES ASSUME NEW x \in Clients \ hung,
                        cl'[x].at = "wait", cl'[x].kind \in {"insert", "load"},
                        ~Pending(x, cl'[x], down'[x], srv)
                 PROVE  <<x, cl'[x].n>> \in Ids(db)
      BY ZenonT(60) DEF Acknowledged, Ids
    <2>1. CASE x = c
      BY <1>1, <2>1
    <2>2. CASE x # c
      BY <1>1, <2>2 DEF Acknowledged
    <2> QED
      BY <2>1, <2>2
  <1> QED
    BY <1>2, <1>3, <1>4, <1>6, <1>7

---------------------------------------------------------------------------
(* The steps of a client.                                                  *)

\* What the invariant says of one client.
LEMMA OfClient ==
  ASSUME IInv, NEW c \in Clients
  PROVE  /\ cl[c] \in ClientState /\ up[c] \in Seq(Item) /\ down[c] \in Seq(Item)
         /\ cl = [cl EXCEPT ![c] = cl[c]]
         /\ up = [up EXCEPT ![c] = up[c]]
         /\ down = [down EXCEPT ![c] = down[c]]
         /\ Connection(c, cl[c], up[c], down[c], hung, srv)
         /\ reset \subseteq Clients /\ ledger \subseteq Commands
         /\ ledger \subseteq Ids(IF srv.at = "down" THEN disk ELSE db)
  BY DEF IInv, Types, Connections, Acknowledged

\* A client that goes leaves what it sent; the server may be left with a reply that it dies of.
LEMMA LeaveKeeps ==
  ASSUME IInv, NEW c \in Clients, cl[c].at # "out", Leave(c)
  PROVE  IInv'
  <1> DEFINE k == [at |-> "gone", n |-> cl[c].n, kind |-> "none", line |-> 0]
  <1>1. k \in ClientState /\ k.n >= cl[c].n
    BY OfClient, RowsAssumption DEF ClientState, ClientStages
  <1>2. /\ cl' = [cl EXCEPT ![c] = k] /\ down' = [down EXCEPT ![c] = <<>>] /\ up' = [up EXCEPT ![c] = up[c]]
        /\ reset' \subseteq Clients /\ UNCHANGED <<hung, backlog, srv, db, disk, ledger>>
    BY OfClient DEF Leave, Server
  <1>3. <<>> \in Seq(Item)
    OBVIOUS
  <1>4. Connection(c, k, up[c], <<>>, hung, srv)
    BY OfClient DEF Connection, Sending, Underway, Replies
  <1>5. ~Pending(c, k, <<>>, srv)
    BY DEF Pending, Sending
  <1>6. up[c] \in Seq(Item)
    BY OfClient
  <1> HIDE DEF k
  <1>7. k.at = "gone"
    BY DEF k
  <1> QED
    BY <1>1, <1>2, <1>3, <1>4, <1>5, <1>6, <1>7, OfClient, ClientKeeps

\* A send adds the item that comes next in the command.
LEMMA SendKeeps ==
  ASSUME IInv, NEW c \in Clients, NEW item, NEW next \in Sending, NEW line \in Nat,
         cl[c].at \in {"header", "command", "size", "file"},
         item = [type |-> Script[Sent(cl[c]) + 1], cmd |-> Cmd(c), kind |-> cl[c].kind],
         NEW k, k = [cl[c] EXCEPT !.at = next, !.line = line], Sent(k) = Sent(cl[c]) + 1,
         Sent(cl[c]) \in Nat, Sent(cl[c]) + 1 <= Length(cl[c].kind),
         next \in {"size", "file"} => cl[c].kind = "load",
         next = "file" => line \in 1 .. Len(Stream),
         Send(c, item, next, line)
  PROVE  IInv'
  <1>1. CASE c \in hung
    BY <1>1, LeaveKeeps DEF Send
  <1>2. CASE c \notin hung
    <2> DEFINE u == Append(up[c], item)
    <2>1. /\ cl[c] \in ClientState /\ up[c] \in Seq(Item) /\ down[c] \in Seq(Item)
          /\ Connection(c, cl[c], up[c], down[c], hung, srv)
      BY OfClient
    <2>2. /\ k \in ClientState /\ k.at = next /\ k.line = line
          /\ k.n = cl[c].n /\ k.kind = cl[c].kind
      BY <2>1 DEF ClientState, ClientStages, Sending
    <2>3. /\ cl' = [cl EXCEPT ![c] = k] /\ up' = [up EXCEPT ![c] = u]
          /\ down' = [down EXCEPT ![c] = down[c]]
          /\ UNCHANGED <<hung, reset, backlog, srv, db, disk, ledger>>
      BY ZenonT(60), <1>2, OfClient DEF Send, Server, IInv, Types
    <2>4. cl[c].kind \in Kinds /\ cl[c].n > 0 /\ cl[c].at \in Sending
      BY <2>1 DEF Connection, Sending
    <2>5. item \in Item
      <3>1. Script[Sent(cl[c]) + 1] \in Parts
        BY ScriptShape, StreamShape DEF Length
      <3>2. Cmd(c) \in Commands
        BY <2>1, <2>4 DEF Cmd, Commands, ClientState
      <3> QED
        BY <2>4, <3>1, <3>2 DEF Item
    <2>6. /\ u \in Seq(Item) /\ Len(u) = Len(up[c]) + 1 /\ u[Len(up[c]) + 1] = item
          /\ \A i \in 1 .. Len(up[c]) : u[i] = up[c][i]
          /\ Len(up[c]) \in Nat /\ u # <<>>
      BY <2>1, <2>5, AppendProperties
    <2>7. Abreast(c, cl[c], up[c], down[c], srv) /\ Underway(c, cl[c], up[c], srv) /\ Replies(c, cl[c], down[c])
      BY <1>2, <2>1, <2>4 DEF Connection, Sending
    <2>8. down[c] = <<>> /\ Pending(c, cl[c], down[c], srv)
      BY <2>4, <2>7 DEF Abreast, Replies
    <2>9. /\ Taken(c, srv) + Len(up[c]) = Sent(cl[c])
          /\ up[c] # <<>> => up[c][1].kind = cl[c].kind
          /\ Taken(c, srv) >= 2 => cl[c].kind = "load" /\ srv.cmd = <<c, cl[c].n>>
      BY <2>4, <2>7, <2>8 DEF Abreast
    <2>10. Taken(c, srv) \in Nat
      BY RowsAssumption DEF Taken, IInv, Types, ServerOK, ServerState
    <2> HIDE DEF u
    <2>11. u[1].kind = cl[c].kind
      BY SMTT(30), <2>6, <2>9
    <2>12. Underway(c, k, u, srv)
      <3>1. ASSUME NEW i \in 1 .. Len(u)
            PROVE  u[i] = [type |-> Script[Taken(c, srv) + i], cmd |-> <<c, k.n>>, kind |-> u[1].kind]
        <4>1. CASE i = Len(up[c]) + 1
          <5>1. Taken(c, srv) + i = Sent(cl[c]) + 1
            BY <2>6, <2>9, <2>10, <4>1
          <5> QED
            BY <2>2, <2>6, <2>11, <4>1, <5>1 DEF Cmd
        <4>2. CASE i \in 1 .. Len(up[c])
          <5>1. up[c] # <<>>
            BY <2>6, <4>2
          <5>2. up[c][i] = [type |-> Script[Taken(c, srv) + i], cmd |-> <<c, cl[c].n>>, kind |-> up[c][1].kind]
            BY <2>7, <4>2 DEF Underway
          <5> QED
            BY <2>2, <2>6, <2>9, <2>11, <4>2, <5>1, <5>2
        <4> QED
          BY <2>6, <4>1, <4>2
      <3>2. Taken(c, srv) + Len(u) <= Length(u[1].kind)
        BY <2>6, <2>9, <2>10, <2>11
      <3> QED
        BY <2>8, <2>9, <2>11, <3>1, <3>2 DEF Underway, Pending
    <2>13. Pending(c, k, down[c], srv)
      BY <2>2, <2>8 DEF Pending
    <2>14. Abreast(c, k, u, down[c], srv)
      <3>1. k.at # "ready" /\ k.at # "text"
        BY <2>2 DEF Sending
      <3>2. Taken(c, srv) + Len(u) = Sent(k)
        BY <2>6, <2>9, <2>10
      <3> QED
        BY <2>2, <2>9, <2>11, <2>13, <3>1, <3>2 DEF Abreast
    <2>15. Replies(c, k, down[c])
      BY <2>8 DEF Replies
    <2>16. Connection(c, k, u, down[c], hung, srv)
      BY <1>2, <2>1, <2>2, <2>4, <2>12, <2>14, <2>15 DEF Connection, Sending
    <2>17. k.at # "out" /\ cl[c].at # "gone" /\ cl[c].at # "out" /\ k.n >= cl[c].n
      BY <2>1, <2>2 DEF Sending, ClientState
    <2> QED
      BY <2>1, <2>2, <2>3, <2>6, <2>8, <2>13, <2>16, <2>17, OfClient, ClientKeeps
  <1> QED
    BY <1>1, <1>2

LEMMA ConnectKeeps ==
  ASSUME IInv, NEW c \in Clients, Connect(c)
  PROVE  IInv'
  <1> DEFINE k == [cl[c] EXCEPT !.at = "ready"]
  <1>1. /\ cl[c] \in ClientState /\ up[c] \in Seq(Item) /\ down[c] \in Seq(Item)
        /\ Connection(c, cl[c], up[c], down[c], hung, srv)
    BY OfClient
  <1>2. k \in ClientState /\ k.at = "ready" /\ k.n = cl[c].n
    BY <1>1 DEF ClientState, ClientStages
  <1>3. /\ cl' = [cl EXCEPT ![c] = k] /\ up' = [up EXCEPT ![c] = up[c]]
        /\ down' = [down EXCEPT ![c] = down[c]]
        /\ UNCHANGED <<hung, reset, srv, db, disk, ledger>>
        /\ backlog' = Append(backlog, c) /\ cl[c].at = "out" /\ srv.at # "down"
    BY OfClient DEF Connect, IInv, Types
  <1> HIDE DEF k
  <1>4. Connection(c, k, up[c], down[c], hung, srv)
    BY <1>1, <1>2, <1>3 DEF Connection, Underway, Replies, Abreast, Sending
  <1>5. ~Pending(c, k, down[c], srv) /\ k.n >= cl[c].n
    BY <1>1, <1>2 DEF Pending, Sending, ClientState
  <1> QED
    BY <1>1, <1>2, <1>3, <1>4, <1>5, OfClient, ClientKeeps

\* There is room for one more command.
LEMMA TypedBound ==
  ASSUME Types, NEW c \in Clients, Cardinality(Typed) < MaxCommands
  PROVE  cl[c].n < MaxCommands
  <1>1. cl[c].n \in 0 .. MaxCommands /\ MaxCommands \in Nat
    BY RowsAssumption DEF Types, ClientState
  <1> SUFFICES ASSUME cl[c].n = MaxCommands
               PROVE  FALSE
    BY <1>1
  <1> DEFINE f == [i \in 1 .. MaxCommands |-> <<c, i>>]
  <1>2. IsFiniteSet(Typed)
    <2>1. IsFiniteSet(1 .. MaxCommands)
      BY <1>1, FS_Interval
    <2>2. IsFiniteSet(Clients \X (1 .. MaxCommands))
      BY <2>1, FS_Product
    <2>3. Typed \in SUBSET (Clients \X (1 .. MaxCommands))
      BY DEF Typed
    <2> QED
      BY <2>2, <2>3, FS_Subset
  <1>3. f \in Injection(1 .. MaxCommands, Typed)
    <2>1. \A i \in 1 .. MaxCommands : <<c, i>> \in Typed
      BY <1>1 DEF Typed
    <2>2. f \in [1 .. MaxCommands -> Typed]
      BY <2>1
    <2>3. \A i, j \in 1 .. MaxCommands : f[i] = f[j] => i = j
      OBVIOUS
    <2> QED
      BY <2>2, <2>3 DEF Injection, IsInjective
  <1>4. Cardinality(1 .. MaxCommands) <= Cardinality(Typed)
    BY <1>2, <1>3, FS_Injection
  <1>5. Cardinality(1 .. MaxCommands) = MaxCommands
    BY <1>1, FS_Interval
  <1>6. Cardinality(Typed) \in Nat
    BY <1>2, FS_CardinalityType
  <1> QED
    BY <1>1, <1>4, <1>5, <1>6

LEMMA TypeKeeps ==
  ASSUME IInv, NEW c \in Clients, NEW kind \in Kinds, Type(c, kind)
  PROVE  IInv'
  <1> DEFINE k == [cl[c] EXCEPT !.at = "header", !.n = @ + 1, !.kind = kind]
  <1>1. /\ cl[c] \in ClientState /\ up[c] \in Seq(Item) /\ down[c] \in Seq(Item)
        /\ Connection(c, cl[c], up[c], down[c], hung, srv)
    BY OfClient
  <1>2. cl[c].n < MaxCommands /\ MaxCommands \in Nat /\ cl[c].n \in Nat
    BY <1>1, TypedBound, RowsAssumption DEF Type, IInv, ClientState
  <1>3. k \in ClientState
    <2>1. cl[c].n + 1 \in 0 .. MaxCommands
      BY <1>2
    <2> QED
      BY <1>1, <2>1 DEF ClientState, ClientStages
  <1>4. /\ cl' = [cl EXCEPT ![c] = k] /\ up' = [up EXCEPT ![c] = up[c]]
        /\ down' = [down EXCEPT ![c] = down[c]] /\ cl[c].at = "ready"
        /\ UNCHANGED <<hung, reset, backlog, srv, db, disk, ledger>>
    BY ZenonT(60), <1>1, OfClient DEF Type, Server, IInv, Types, ClientState
  <1>5. k.at = "header" /\ k.n = cl[c].n + 1 /\ k.kind = kind
    BY <1>1 DEF ClientState
  <1> HIDE DEF k
  <1>6. up[c] = <<>> /\ down[c] = <<>>
    BY <1>1, <1>4 DEF Connection, Abreast, Replies
  <1>7. c \notin hung => Taken(c, srv) = 0 /\ Pending(c, k, down[c], srv)
    BY <1>1, <1>4, <1>5, <1>6 DEF Connection, Abreast, Taken, Pending, Sending, Reading
  <1>8. c \notin hung => Abreast(c, k, up[c], down[c], srv)
    BY <1>5, <1>6, <1>7 DEF Abreast, Sent
  <1>9. Connection(c, k, up[c], down[c], hung, srv)
    BY <1>1, <1>2, <1>4, <1>5, <1>6, <1>8 DEF Connection, Underway, Replies, Sending
  <1>10. k.n > cl[c].n /\ k.n >= cl[c].n
    BY <1>2, <1>5
  <1>11. k.at # "out" /\ k.at # "wait" /\ cl[c].at # "gone"
    BY <1>4, <1>5
  <1> QED
    BY <1>1, <1>3, <1>4, <1>9, <1>10, <1>11, OfClient, ClientKeeps

\* A status that arrives is that of the command, carried out.
LEMMA RecvStatusKeeps ==
  ASSUME IInv, NEW c \in Clients, RecvStatus(c)
  PROVE  IInv'
  <1> DEFINE k == [cl[c] EXCEPT !.at = IF Head(down[c]).kind = "shutdown" THEN "gone" ELSE "text",
                               !.kind = "none", !.line = 0]
             d == Tail(down[c])
  <1>1. /\ cl[c] \in ClientState /\ up[c] \in Seq(Item) /\ down[c] \in Seq(Item)
        /\ Connection(c, cl[c], up[c], down[c], hung, srv)
    BY OfClient
  <1>2. k \in ClientState
    BY <1>1 DEF ClientState, ClientStages
  <1>3. /\ cl' = [cl EXCEPT ![c] = k] /\ up' = [up EXCEPT ![c] = up[c]]
        /\ down' = [down EXCEPT ![c] = d] /\ cl[c].at = "wait" /\ down[c] # <<>>
        /\ UNCHANGED <<hung, reset, backlog, srv, db, disk>>
    BY ZenonT(60), <1>1, OfClient DEF RecvStatus, Server, IInv, Types, ClientState
  <1>4. /\ d \in Seq(Item) /\ Len(d) = Len(down[c]) - 1 /\ Len(down[c]) \in Nat
        /\ \A i \in 1 .. Len(d) : d[i] = down[c][i + 1]
        /\ Head(down[c]) = down[c][1] /\ Len(down[c]) >= 1 /\ (Len(d) = 0 => d = <<>>)
    BY <1>1, <1>3, TailShape
  <1>5. /\ Len(down[c]) <= 2 /\ down[c][1].kind = cl[c].kind
        /\ Len(down[c]) = 2 => down[c][2].type = "text" /\ cl[c].kind # "shutdown"
        /\ \A i \in 1 .. Len(down[c]) : down[c][i].cmd = <<c, cl[c].n>>
    BY <1>1, <1>3, <1>4 DEF Connection, Replies
  <1>6. /\ k.at = IF cl[c].kind = "shutdown" THEN "gone" ELSE "text"
        /\ k.n = cl[c].n /\ k.kind = "none"
    BY <1>1, <1>4, <1>5 DEF ClientState
  <1> HIDE DEF k, d
  <1>7. Replies(c, k, d)
    <2>1. \A i \in 1 .. Len(d) : d[i].cmd = <<c, k.n>>
      BY <1>4, <1>5, <1>6
    <2>2. k.at = "gone" => d = <<>>
      <3>1. k.at = "gone" => Len(down[c]) # 2
        BY <1>5, <1>6
      <3>2. Len(down[c]) \in Nat /\ Len(down[c]) >= 1 /\ Len(down[c]) <= 2
        BY <1>4, <1>5
      <3>3. k.at = "gone" => Len(down[c]) = 1
        <4> DEFINE n == Len(down[c])
        <4>1. n \in Nat /\ n >= 1 /\ n <= 2 /\ (k.at = "gone" => n # 2)
          BY <3>1, <3>2
        <4> HIDE DEF n
        <4>2. k.at = "gone" => n = 1
          BY <4>1
        <4> QED
          BY <4>2 DEF n
      <3>4. Len(d) = Len(down[c]) - 1
        BY <1>4
      <3> QED
        BY <1>4, <3>3, <3>4
    <2>3. Len(d) <= 1 /\ (Len(d) = 1 => d[1].type = "text")
      BY <1>4, <1>5
    <2> QED
      BY <1>6, <2>1, <2>2, <2>3 DEF Replies
  <1>8. ASSUME c \notin hung
        PROVE  /\ up[c] = <<>> /\ srv.cur = c /\ ~Pending(c, cl[c], down[c], srv)
               /\ \/ srv.at \in {"text", "persist"} /\ Len(down[c]) = 1
                  \/ srv.at = "header" /\ Len(down[c]) = 2
               /\ srv.at # "header" => srv.kind = cl[c].kind /\ srv.cmd = <<c, cl[c].n>>
    BY <1>1, <1>3, <1>4, <1>8 DEF Connection, Abreast, Sending, Pending
  <1>9. ServerOK(srv)
    BY DEF IInv, Types
  <1>10. c \notin hung => Abreast(c, k, up[c], d, srv)
    <2> SUFFICES ASSUME c \notin hung
                 PROVE  Abreast(c, k, up[c], d, srv)
      OBVIOUS
    <2>1. k.at = "text" => srv.at # "persist"
      BY <1>6, <1>8, <1>9 DEF ServerOK
    <2> QED
      BY <1>4, <1>6, <1>8, <2>1 DEF Abreast, Sending
  <1>11. Connection(c, k, up[c], d, hung, srv)
    <2>1. Underway(c, k, up[c], srv)
      BY <1>1, <1>6 DEF Connection, Underway
    <2> QED
      BY <1>1, <1>3, <1>6, <1>7, <1>10, <2>1 DEF Connection, Sending
  <1>12. ~Pending(c, k, d, srv) /\ k.n >= cl[c].n
    BY <1>1, <1>6 DEF Pending, Sending, ClientState
  <1>13. /\ ledger' \subseteq Commands
         /\ ledger' \subseteq Ids(IF srv.at = "down" THEN disk ELSE db)
    <2>1. CASE cl[c].kind \in {"insert", "load"} /\ c \notin hung
      <3>1. ledger' = ledger \cup {Cmd(c)}
        BY <2>1 DEF RecvStatus
      <3>2. Cmd(c) \in Ids(db)
        BY <1>3, <1>8, <2>1 DEF IInv, Acknowledged, Cmd
      <3>3. Cmd(c) \in Commands
        BY <1>1, <1>3 DEF Connection, Sending, Cmd, Commands, ClientState
      <3>4. srv.at # "down"
        BY <1>8, <2>1
      <3> QED
        BY <3>1, <3>2, <3>3, <3>4, OfClient
    <2>2. CASE ~(cl[c].kind \in {"insert", "load"} /\ c \notin hung)
      <3>1. ledger' = ledger
        BY <2>2 DEF RecvStatus
      <3> QED
        BY <3>1, OfClient
    <2> QED
      BY <2>1, <2>2
  <1>14. k.at # "out" /\ k.at # "wait" /\ cl[c].at # "gone"
    BY <1>3, <1>6
  <1> QED
    BY <1>1, <1>2, <1>3, <1>4, <1>11, <1>12, <1>13, <1>14, OfClient, ClientKeeps

LEMMA RecvTextKeeps ==
  ASSUME IInv, NEW c \in Clients, RecvText(c)
  PROVE  IInv'
  <1> DEFINE k == [cl[c] EXCEPT !.at = "ready"]
             d == Tail(down[c])
  <1>1. /\ cl[c] \in ClientState /\ up[c] \in Seq(Item) /\ down[c] \in Seq(Item)
        /\ Connection(c, cl[c], up[c], down[c], hung, srv)
    BY OfClient
  <1>2. k \in ClientState /\ k.at = "ready" /\ k.n = cl[c].n
    BY <1>1 DEF ClientState, ClientStages
  <1>3. /\ cl' = [cl EXCEPT ![c] = k] /\ up' = [up EXCEPT ![c] = up[c]]
        /\ down' = [down EXCEPT ![c] = d] /\ cl[c].at = "text" /\ down[c] # <<>>
        /\ UNCHANGED <<hung, reset, backlog, srv, db, disk, ledger>>
    BY OfClient DEF RecvText, Server, IInv, Types
  <1>4. d \in Seq(Item) /\ d = <<>>
    <2>1. Len(down[c]) <= 1
      BY <1>1, <1>3 DEF Connection, Replies
    <2> QED
      BY <1>1, <1>3, <2>1, TailShape
  <1> HIDE DEF k, d
  <1>5. c \notin hung => Abreast(c, k, up[c], d, srv)
    BY <1>1, <1>2, <1>3, <1>4 DEF Connection, Abreast, Sending
  <1>6. Connection(c, k, up[c], d, hung, srv)
    BY <1>1, <1>2, <1>3, <1>4, <1>5 DEF Connection, Underway, Replies, Sending
  <1>7. ~Pending(c, k, d, srv) /\ k.n >= cl[c].n
    BY <1>1, <1>2 DEF Pending, Sending, ClientState
  <1>8. k.at # "out" /\ k.at # "wait" /\ cl[c].at # "gone"
    BY <1>2, <1>3
  <1> QED
    BY <1>1, <1>2, <1>3, <1>4, <1>6, <1>7, <1>8, OfClient, ClientKeeps

\* A client that gets no text is one whose connection is closed.
LEMMA RecvEndKeeps ==
  ASSUME IInv, NEW c \in Clients, RecvEnd(c)
  PROVE  IInv'
  <1>1. CASE cl[c].at = "wait" /\ Leave(c)
    BY <1>1, LeaveKeeps
  <1>2. CASE /\ cl[c].at = "text" /\ cl' = [cl EXCEPT ![c].at = "ready"]
             /\ UNCHANGED <<up, down, reset, Server, ledger>>
    <2> DEFINE k == [cl[c] EXCEPT !.at = "ready"]
    <2>1. /\ cl[c] \in ClientState /\ up[c] \in Seq(Item) /\ down[c] \in Seq(Item)
          /\ Connection(c, cl[c], up[c], down[c], hung, srv)
      BY OfClient
    <2>2. k \in ClientState /\ k.at = "ready" /\ k.n = cl[c].n
      BY <2>1 DEF ClientState, ClientStages
    <2>3. /\ cl' = [cl EXCEPT ![c] = k] /\ up' = [up EXCEPT ![c] = up[c]]
          /\ down' = [down EXCEPT ![c] = down[c]]
          /\ UNCHANGED <<hung, reset, backlog, srv, db, disk, ledger>>
          /\ c \in hung /\ down[c] = <<>>
      BY <1>2, OfClient DEF RecvEnd, Server, IInv, Types
    <2> HIDE DEF k
    <2>4. Connection(c, k, up[c], down[c], hung, srv)
      BY <2>1, <2>2, <2>3 DEF Connection, Underway, Replies, Sending
    <2>5. k.n >= cl[c].n
      BY <2>1, <2>2 DEF ClientState
    <2>6. k.at # "out" /\ k.at # "wait" /\ cl[c].at # "gone"
      BY <1>2, <2>2
    <2> QED
      BY <2>1, <2>2, <2>3, <2>4, <2>5, <2>6, OfClient, ClientKeeps
  <1> QED
    BY <1>1, <1>2 DEF RecvEnd

LEMMA SendsKeep ==
  ASSUME IInv, NEW c \in Clients,
         SendHeader(c) \/ SendCommand(c) \/ SendSize(c) \/ SendFile(c)
  PROVE  IInv'
  <1> DEFINE item == [type |-> Script[Sent(cl[c]) + 1], cmd |-> Cmd(c), kind |-> cl[c].kind]
             K(next, line) == [cl[c] EXCEPT !.at = next, !.line = line]
  <1>1. /\ cl[c] \in ClientState /\ Connection(c, cl[c], up[c], down[c], hung, srv)
    BY OfClient
  <1>2. ASSUME NEW next, NEW line
        PROVE  K(next, line).at = next /\ K(next, line).line = line /\ K(next, line).kind = cl[c].kind
    BY <1>1 DEF ClientState
  <1>3. Len(Stream) \in Nat /\ Len(Stream) >= 2
    BY StreamShape, LenProperties
  \* A send that leads to next and line keeps the invariant, if it is one item further.
  <1>4. ASSUME NEW next \in Sending, NEW line \in Nat, Send(c, item, next, line),
               cl[c].at \in {"header", "command", "size", "file"}, Sent(cl[c]) \in Nat,
               Sent(K(next, line)) = Sent(cl[c]) + 1, Sent(cl[c]) + 1 <= Length(cl[c].kind),
               next \in {"size", "file"} => cl[c].kind = "load",
               next = "file" => line \in 1 .. Len(Stream)
        PROVE  IInv'
    <2> DEFINE k == K(next, line)
    <2>1. k = [cl[c] EXCEPT !.at = next, !.line = line] /\ Sent(k) = Sent(cl[c]) + 1
      BY <1>4
    <2>2. item = [type |-> Script[Sent(cl[c]) + 1], cmd |-> Cmd(c), kind |-> cl[c].kind]
      OBVIOUS
    <2> HIDE DEF k, item
    <2> QED
      BY <1>4, <2>1, <2>2, SendKeeps
  <1>5. CASE SendHeader(c)
    <2>1. Sent(cl[c]) = 0 /\ Sent(K("command", 0)) = 1
      BY <1>2, <1>5 DEF SendHeader, Sent
    <2>2. Send(c, item, "command", 0)
      BY <1>5, <2>1, ScriptShape DEF SendHeader
    <2>3. /\ 1 <= Length(cl[c].kind) /\ "command" \in Sending /\ cl[c].at = "header"
      BY <1>3, <1>5 DEF SendHeader, Length, Sending
    <2> HIDE DEF item, K
    <2> QED
      BY <1>4, <2>1, <2>2, <2>3
  <1>6. CASE SendCommand(c)
    <2> DEFINE next == IF cl[c].kind = "load" THEN "size" ELSE "wait"
    <2>1. Sent(cl[c]) = 1 /\ Sent(K(next, 0)) = 2
      BY <1>2, <1>6 DEF SendCommand, Sent, Length
    <2>2. Send(c, item, next, 0)
      BY <1>6, <2>1, ScriptShape DEF SendCommand
    <2>3. /\ 2 <= Length(cl[c].kind) /\ next \in Sending /\ cl[c].at = "command"
          /\ next # "file" /\ (next = "size" => cl[c].kind = "load")
      BY <1>3, <1>6 DEF SendCommand, Length, Sending
    <2> HIDE DEF item, K, next
    <2> QED
      BY <1>4, <2>1, <2>2, <2>3
  <1>7. CASE SendSize(c)
    <2>1. cl[c].kind = "load"
      BY <1>1, <1>7 DEF SendSize, Connection
    <2>2. Sent(cl[c]) = 2 /\ Sent(K("file", 1)) = 3
      BY <1>2, <1>7 DEF SendSize, Sent
    <2>3. Send(c, item, "file", 1)
      BY <1>7, <2>1, <2>2, ScriptShape DEF SendSize
    <2>4. /\ 3 <= Length(cl[c].kind) /\ 1 \in 1 .. Len(Stream) /\ "file" \in Sending
          /\ cl[c].at = "size"
      BY <1>3, <1>7, <2>1 DEF SendSize, Length, Sending
    <2> HIDE DEF item, K
    <2> QED
      BY <1>4, <2>1, <2>2, <2>3, <2>4
  <1>8. CASE SendFile(c)
    <2> DEFINE line == cl[c].line
               next == IF line = Len(Stream) THEN "wait" ELSE "file"
    <2>1. cl[c].kind = "load" /\ line \in 1 .. Len(Stream) /\ cl[c].at = "file"
      BY <1>1, <1>8 DEF SendFile, Connection
    <2>2. Sent(cl[c]) = 2 + line
      BY <2>1 DEF Sent
    <2>3. Sent(K(next, line + 1)) = 3 + line
      BY <1>2, <1>3, <2>1 DEF Sent, Length
    <2>4. Script[2 + line + 1] = Stream[line]
      <3>1. 2 + line + 1 = 3 + line
        BY <2>1
      <3> QED
        BY <2>1, <3>1, ScriptShape
    <2>5. /\ 3 + line <= Length(cl[c].kind) /\ 2 + line \in Nat /\ 2 + line + 1 = 3 + line
          /\ line + 1 \in Nat /\ next \in Sending /\ next # "size"
          /\ next = "file" => line + 1 \in 1 .. Len(Stream)
      BY SMTT(30), <1>3, <2>1 DEF Length, Sending
    <2>6. Send(c, item, next, line + 1)
      BY <1>8, <2>1, <2>2, <2>4 DEF SendFile
    <2> HIDE DEF item, K, next, line
    <2> QED
      BY <1>4, <2>1, <2>2, <2>3, <2>5, <2>6
  <1> QED
    BY <1>5, <1>6, <1>7, <1>8

---------------------------------------------------------------------------
(* The steps of the server.                                                *)

\* The server goes on to s with the client c that it serves, u and d being then under way.
Serves(c, s, u, d) ==
  /\ c \in Clients /\ srv.cur = c /\ s.cur = c /\ ServerOK(s)
  /\ u \in Seq(Item) /\ d \in Seq(Item)
  /\ srv' = s
  /\ up' = [up EXCEPT ![c] = u]
  /\ down' = [down EXCEPT ![c] = d]
  /\ UNCHANGED <<cl, hung, reset, backlog, disk, ledger>>
  /\ Connection(c, cl[c], u, d, hung, s)
  /\ s.kind \in {"insert", "load"} => s.cmd[2] <= cl[s.cmd[1]].n

\* Such a step leaves open only what becomes of the effects.
LEMMA ServesKeeps ==
  ASSUME IInv, NEW c, NEW s, NEW u, NEW d, Serves(c, s, u, d),
         db' \in Seq(Effect), Known(db'), Ids(db) \subseteq Ids(db'),
         \/ s.at = "status" /\ cl[c].at = "gone"
         \/ /\ Whole(db')
            /\ \A x \in Clients \ hung : Pending(x, cl[x], down'[x], s) =>
                 \A i \in DOMAIN db' : db'[i].cmd[1] = x => db'[i].cmd[2] < cl[x].n,
         cl[c].at = "wait" /\ cl[c].kind \in {"insert", "load"} /\ ~Pending(c, cl[c], d, s) =>
           <<c, cl[c].n>> \in Ids(db')
  PROVE  IInv'
  <1> USE DEF IInv, Serves
  <1>1. /\ up'[c] = u /\ down'[c] = d
        /\ \A x \in Clients : x # c => up'[x] = up[x] /\ down'[x] = down[x]
    BY DEF Types
  <1>2. c # None /\ srv.at # "down" /\ s.at # "down"
    BY DEF Types, ServerOK
  <1>3. Types'
    <2>1. up' \in [Clients -> Seq(Item)] /\ down' \in [Clients -> Seq(Item)]
      BY DEF Types
    <2>2. ServerOK(srv)'
      BY DEF ServerOK
    <2> QED
      BY <2>1, <2>2 DEF Types
  <1>4. Connections'
    <2> SUFFICES ASSUME NEW x \in Clients
                 PROVE  Connection(x, cl[x], up'[x], down'[x], hung, s)
      BY DEF Connections
    <2>1. CASE x = c
      BY <1>1, <2>1
    <2>2. CASE x # c
      <3>1. Connection(x, cl[x], up[x], down[x], hung, srv)
        BY DEF Connections
      <3>2. srv.cur # x /\ s.cur # x
        BY <2>2
      <3> QED
        BY <1>1, <1>2, <2>2, <3>1, <3>2, Unserved
    <2> QED
      BY <2>1, <2>2
  <1>5. Queue'
    BY DEF Queue
  <1>6. Effects'
    <2>1. Known(db)' /\ Known(disk)' /\ Whole(disk)'
      BY DEF Effects, Known, Whole
    <2>2. CASE s.at = "status" /\ cl[c].at = "gone"
      BY <2>1, <2>2 DEF Effects, Doomed
    <2>3. CASE /\ Whole(db')
               /\ \A x \in Clients \ hung : Pending(x, cl[x], down'[x], s) =>
                    \A i \in DOMAIN db' : db'[i].cmd[1] = x => db'[i].cmd[2] < cl[x].n
      <3>1. Whole(db)'
        BY <2>3 DEF Whole
      <3> QED
        BY <2>1, <2>3, <3>1 DEF Effects
    <2> QED
      BY <2>2, <2>3
  <1>7. Acknowledged'
    <2>1. ledger \subseteq Ids(db')
      BY <1>2 DEF Acknowledged
    <2>2. ASSUME NEW x \in Clients \ hung, cl[x].at = "wait", cl[x].kind \in {"insert", "load"},
                 ~Pending(x, cl[x], down'[x], s)
          PROVE  <<x, cl[x].n>> \in Ids(db')
      <3>1. CASE x = c
        BY <1>1, <2>2, <3>1
      <3>2. CASE x # c
        <4>1. ~Pending(x, cl[x], down[x], srv)
          BY <1>1, <2>2, <3>2 DEF Pending
        <4> QED
          BY <2>2, <4>1 DEF Acknowledged
      <3> QED
        BY <3>1, <3>2
    <2>3. Ids(IF srv.at = "down" THEN disk ELSE db)' = Ids(db')
      BY <1>2 DEF Ids
    <2>4. Ids(db)' = Ids(db')
      BY DEF Ids
    <2> QED
      BY <2>1, <2>2, <2>3, <2>4 DEF Acknowledged
  <1> QED
    BY <1>3, <1>4, <1>5, <1>6, <1>7

\* A step without an effect, of a server that is not about to die.
LEMMA QuietKeeps ==
  ASSUME IInv, NEW c, NEW s, NEW u, NEW d, Serves(c, s, u, d), db' = db,
         \/ s.at = "status" /\ cl[c].at = "gone"
         \/ ~Doomed,
         Pending(c, cl[c], d, s) => Pending(c, cl[c], down[c], srv),
         cl[c].at = "wait" /\ cl[c].kind \in {"insert", "load"} /\ c \notin hung =>
           Pending(c, cl[c], d, s) \/ ~Pending(c, cl[c], down[c], srv)
  PROVE  IInv'
  <1> USE DEF IInv
  <1>1. db \in Seq(Effect) /\ Known(db)
    BY DEF Types, Effects
  <1>2. c \in Clients \ hung
    BY DEF Serves, Connection
  <1>3. ASSUME ~Doomed
        PROVE  /\ Whole(db)
               /\ \A x \in Clients \ hung : Pending(x, cl[x], down'[x], s) =>
                    \A i \in DOMAIN db : db[i].cmd[1] = x => db[i].cmd[2] < cl[x].n
    <2>1. ASSUME NEW x \in Clients \ hung, Pending(x, cl[x], down'[x], s)
          PROVE  Pending(x, cl[x], down[x], srv)
      <3>1. CASE x = c
        BY <2>1, <3>1 DEF Serves, Types
      <3>2. CASE x # c
        BY <2>1, <3>2 DEF Serves, Types, Pending
      <3> QED
        BY <3>1, <3>2
    <2> QED
      BY <1>3, <2>1 DEF Effects
  <1>4. cl[c].at = "wait" /\ cl[c].kind \in {"insert", "load"} /\ ~Pending(c, cl[c], d, s) =>
          <<c, cl[c].n>> \in Ids(db)
    BY <1>2 DEF Acknowledged
  <1> QED
    BY <1>1, <1>3, <1>4, ServesKeeps

\* One more effect.
LEMMA OneMore ==
  ASSUME NEW effects \in Seq(Effect), Known(effects), NEW e \in Effect,
         e.cmd[2] <= cl[e.cmd[1]].n
  PROVE  /\ Append(effects, e) \in Seq(Effect)
         /\ Known(Append(effects, e))
         /\ Ids(effects) \subseteq Ids(Append(effects, e))
         /\ e.cmd \in Ids(Append(effects, e))
         /\ \A i \in DOMAIN Append(effects, e) :
              Append(effects, e)[i] = e \/ (i \in DOMAIN effects /\ Append(effects, e)[i] = effects[i])
         /\ /\ Whole(effects)
            /\ e.rows = IF e.kind = "load" THEN Rows ELSE 1
            /\ \A i \in DOMAIN effects : effects[i].cmd[1] = e.cmd[1] => effects[i].cmd[2] < e.cmd[2]
            => Whole(Append(effects, e))
  <1> DEFINE n == Len(effects)
             more == Append(effects, e)
  <1>1. /\ more \in Seq(Effect) /\ DOMAIN more = 1 .. n + 1 /\ DOMAIN effects = 1 .. n
        /\ n \in Nat /\ more[n + 1] = e
        /\ \A i \in 1 .. n : more[i] = effects[i]
    BY AppendProperties, LenProperties
  <1> HIDE DEF n, more
  <1>2. \A i \in 1 .. n + 1 : i = n + 1 \/ i \in 1 .. n
    BY <1>1
  <1>3. Known(more)
    BY <1>1, <1>2 DEF Known
  <1>4. Ids(effects) \subseteq Ids(more)
    <2> SUFFICES ASSUME NEW i \in 1 .. n
                 PROVE  effects[i].cmd \in Ids(more)
      BY <1>1 DEF Ids
    <2>1. i \in 1 .. n + 1 /\ more[i] = effects[i]
      BY <1>1
    <2> QED
      BY <1>1, <2>1 DEF Ids
  <1>5. e.cmd \in Ids(more)
    <2>1. n + 1 \in 1 .. n + 1
      BY <1>1
    <2> QED
      BY <1>1, <2>1 DEF Ids
  <1>6. ASSUME Whole(effects), e.rows = IF e.kind = "load" THEN Rows ELSE 1,
               \A i \in DOMAIN effects : effects[i].cmd[1] = e.cmd[1] => effects[i].cmd[2] < e.cmd[2]
        PROVE  Whole(more)
    <2>1. \A i \in DOMAIN more : more[i].rows = IF more[i].kind = "load" THEN Rows ELSE 1
      BY <1>1, <1>2, <1>6 DEF Whole
    <2>2. ASSUME NEW i \in DOMAIN more, NEW j \in DOMAIN more, i < j, more[i].cmd[1] = more[j].cmd[1]
          PROVE  more[i].cmd[2] < more[j].cmd[2]
      <3>1. i \in 1 .. n
        BY <1>1, <2>2
      <3>2. CASE j = n + 1
        BY <1>1, <1>6, <2>2, <3>1, <3>2
      <3>3. CASE j \in 1 .. n
        BY <1>1, <1>6, <2>2, <3>1, <3>3 DEF Whole
      <3> QED
        BY <1>1, <1>2, <2>2, <3>2, <3>3
    <2> QED
      BY <2>1, <2>2 DEF Whole
  <1> QED
    BY <1>1, <1>2, <1>3, <1>4, <1>5, <1>6 DEF more

\* A step that carries a command out: the one that the client waits for, or, if the client is
\* gone, whatever it is, for the server then dies of the reply.
LEMMA EffectKeeps ==
  ASSUME IInv, NEW c, NEW s, NEW u, NEW d, Serves(c, s, u, d), s.at = "status",
         NEW e \in Effect, e.cmd[2] <= cl[e.cmd[1]].n, db' = Append(db, e),
         cl[c].at # "gone" => /\ Pending(c, cl[c], down[c], srv)
                              /\ e.cmd = <<c, cl[c].n>>
                              /\ e.rows = IF e.kind = "load" THEN Rows ELSE 1
  PROVE  IInv'
  <1> USE DEF IInv
  <1>1. db \in Seq(Effect) /\ Known(db)
    BY DEF Types, Effects
  <1>2. c \in Clients \ hung /\ srv.cur = c
    BY DEF Serves, Connection
  <1>3. /\ db' \in Seq(Effect) /\ Known(db') /\ Ids(db) \subseteq Ids(db') /\ e.cmd \in Ids(db')
        /\ \A i \in DOMAIN db' : db'[i] = e \/ (i \in DOMAIN db /\ db'[i] = db[i])
    BY <1>1, OneMore
  <1>4. CASE cl[c].at = "gone"
    BY <1>3, <1>4, ServesKeeps
  <1>5. CASE cl[c].at # "gone"
    <2>1. ~Doomed /\ Whole(db) /\ \A i \in DOMAIN db : db[i].cmd[1] = c => db[i].cmd[2] < cl[c].n
      BY <1>2, <1>5 DEF Effects, Doomed
    <2>2. e.cmd[1] = c /\ e.cmd[2] = cl[c].n
      BY <1>5
    <2>3. Whole(db')
      BY <1>1, <1>5, <2>1, <2>2, OneMore
    <2>4. ASSUME NEW x \in Clients \ hung, Pending(x, cl[x], down'[x], s),
                 NEW i \in DOMAIN db', db'[i].cmd[1] = x
          PROVE  db'[i].cmd[2] < cl[x].n
      <3>1. x # c
        BY <2>4 DEF Pending, Serves, Reading
      <3>2. i \in DOMAIN db /\ db'[i] = db[i]
        BY <1>3, <2>2, <2>4, <3>1
      <3>3. Pending(x, cl[x], down[x], srv)
        BY <2>4, <3>1 DEF Serves, Types, Pending
      <3> QED
        BY <2>1, <2>4, <3>2, <3>3 DEF Effects
    <2>5. <<c, cl[c].n>> \in Ids(db')
      BY <1>3, <1>5
    <2> QED
      BY <1>3, <2>3, <2>4, <2>5, ServesKeeps
  <1> QED
    BY <1>4, <1>5

\* What the invariant says of the server and of the client that it serves.
LEMMA OfServer ==
  ASSUME IInv, srv.at \notin {"accept", "down"}, NEW c, c = srv.cur
  PROVE  /\ c \in Clients /\ c \notin hung
         /\ cl[c] \in ClientState /\ up[c] \in Seq(Item) /\ down[c] \in Seq(Item)
         /\ Connection(c, cl[c], up[c], down[c], hung, srv)
         /\ ServerOK(srv) /\ srv \in ServerState /\ Taken(c, srv) \in Nat
         /\ srv.kind \in {"insert", "load"} => srv.cmd[2] <= cl[srv.cmd[1]].n
         /\ up = [up EXCEPT ![c] = up[c]] /\ down = [down EXCEPT ![c] = down[c]]
  <1>1. c \in Clients
    BY DEF IInv, Types, ServerOK, ServerState
  <1>2. Connection(c, cl[c], up[c], down[c], hung, srv)
    BY <1>1, OfClient
  <1>3. ServerOK(srv) /\ srv \in ServerState
    BY DEF IInv, Types, ServerOK
  <1>4. Taken(c, srv) \in Nat
    BY <1>3, RowsAssumption DEF Taken, ServerState
  <1> QED
    BY <1>1, <1>2, <1>3, <1>4, OfClient DEF IInv, Effects, Connection

\* The server takes an item and waits for more.
LEMMA Consumed ==
  ASSUME NEW c \in Clients, NEW k \in ClientState, NEW u \in Seq(Item), NEW d, NEW t, NEW s,
         c \notin hung, Connection(c, k, u, d, hung, t), u # <<>>, t.cur = c, s.cur = c,
         s.at \in Reading, Taken(c, t) \in Nat, Taken(c, s) = Taken(c, t) + 1,
         Taken(c, s) >= 2 =>
           u[1].kind = "load" /\ (k.at # "gone" => s.cmd = <<c, k.n>>)
  PROVE  /\ Connection(c, k, Tail(u), d, hung, s)
         /\ k.at # "gone" => Pending(c, k, d, t) /\ Pending(c, k, d, s)
  <1> DEFINE v == Tail(u)
  <1>1. /\ v \in Seq(Item) /\ Len(v) = Len(u) - 1 /\ Len(u) \in Nat /\ Len(u) >= 1
        /\ \A i \in 1 .. Len(v) : v[i] = u[i + 1]
        /\ Len(v) = 0 => v = <<>>
    BY TailShape
  <1>2. Underway(c, k, u, t) /\ Replies(c, k, d) /\ k.at # "out" /\ k.at \in ClientStages
    BY DEF Connection, ClientState
  <1> HIDE DEF v
  <1>3. v # <<>> => v[1].kind = u[1].kind
    <2> SUFFICES ASSUME v # <<>>
                 PROVE  v[1].kind = u[1].kind
      OBVIOUS
    <2>1. 1 \in 1 .. Len(v) /\ 2 \in 1 .. Len(u)
      BY <1>1, EmptySeq
    <2>2. u[2].kind = u[1].kind
      <3>1. u[2] = [type |-> Script[Taken(c, t) + 2], cmd |-> <<c, k.n>>, kind |-> u[1].kind]
        BY <1>2, <2>1 DEF Underway
      <3> QED
        BY <3>1
    <2>3. v[1] = u[1 + 1]
      BY <1>1, <2>1
    <2> QED
      BY <2>2, <2>3
  <1>4. Underway(c, k, v, s)
    <2>1. ASSUME NEW i \in 1 .. Len(v)
          PROVE  v[i] = [type |-> Script[Taken(c, s) + i], cmd |-> <<c, k.n>>, kind |-> v[1].kind]
      <3>1. i + 1 \in 1 .. Len(u) /\ v[i] = u[i + 1] /\ v # <<>>
        BY <1>1
      <3>2. Taken(c, t) + (i + 1) = Taken(c, s) + i
        OBVIOUS
      <3> QED
        BY <1>2, <1>3, <3>1, <3>2 DEF Underway
    <2>2. v # <<>> => Taken(c, s) + Len(v) <= Length(u[1].kind)
      BY <1>1, <1>2 DEF Underway
    <2> QED
      BY <1>3, <2>1, <2>2 DEF Underway
  <1>5. ASSUME k.at # "gone"
        PROVE  /\ k.at \in Sending /\ Pending(c, k, d, t) /\ Pending(c, k, d, s)
               /\ Abreast(c, k, v, d, s)
    <2>1. Abreast(c, k, u, d, t)
      BY <1>2, <1>5 DEF Connection
    <2>2. k.at \in Sending
      BY <1>2, <1>5, <2>1 DEF Abreast, ClientStages, Sending
    <2>3. /\ Pending(c, k, d, t) /\ Taken(c, t) + Len(u) = Sent(k)
          /\ u[1].kind = k.kind
      BY <2>1, <2>2 DEF Abreast
    <2>4. Pending(c, k, d, s)
      BY <2>3 DEF Pending
    <2>5. Taken(c, s) + Len(v) = Sent(k)
      BY <1>1, <2>3
    <2>6. k.at # "ready" /\ k.at # "text"
      BY <2>2 DEF Sending
    <2>7. Abreast(c, k, v, d, s)
      BY <1>3, <1>5, <2>3, <2>4, <2>5, <2>6 DEF Abreast
    <2> QED
      BY <2>2, <2>3, <2>4, <2>7
  <1>6. s.at # "down"
    BY DEF Reading
  <1>7. Connection(c, k, v, d, hung, s)
    BY <1>2, <1>4, <1>5, <1>6 DEF Connection
  <1> QED
    BY <1>5, <1>7 DEF v

\* An item of which the server only counts that it came.
LEMMA TakeKeeps ==
  ASSUME IInv, NEW s, srv.at \in Reading \ {"command"}, Received, Take(s), db' = db,
         ServerOK(s), s.at \in Reading, s.cur = srv.cur, s.kind = srv.kind, s.cmd = srv.cmd,
         Taken(srv.cur, s) = Taken(srv.cur, srv) + 1
  PROVE  IInv'
  <1> DEFINE c == srv.cur
  <1>1. srv.at \notin {"accept", "down"}
    BY DEF Reading
  <1>2. /\ c \in Clients /\ c \notin hung
        /\ cl[c] \in ClientState /\ up[c] \in Seq(Item) /\ down[c] \in Seq(Item)
        /\ Connection(c, cl[c], up[c], down[c], hung, srv)
        /\ Taken(c, srv) \in Nat
        /\ srv.kind \in {"insert", "load"} => srv.cmd[2] <= cl[srv.cmd[1]].n
        /\ down = [down EXCEPT ![c] = down[c]]
    BY <1>1, OfServer
  <1>3. up[c] # <<>>
    BY DEF Received
  <1>4. Taken(c, s) >= 2 =>
          up[c][1].kind = "load" /\ (cl[c].at # "gone" => s.cmd = <<c, cl[c].n>>)
    <2> SUFFICES ASSUME Taken(c, s) >= 2
                 PROVE  up[c][1].kind = "load" /\ (cl[c].at # "gone" => s.cmd = <<c, cl[c].n>>)
      OBVIOUS
    <2>1. Taken(c, srv) >= 2
      <3>1. srv.rows \in Nat
        BY <1>1, OfServer, RowsAssumption DEF ServerState
      <3>2. Taken(c, srv) # 1
        BY <3>1 DEF Taken, Reading
      <3> QED
        BY <1>2, <3>2
    <2>2. up[c][1].kind = "load"
      BY <1>2, <1>3, <2>1 DEF Connection, Underway
    <2>3. cl[c].at # "gone" => Abreast(c, cl[c], up[c], down[c], srv) /\ cl[c].at \in Sending
      BY <1>2, <1>3 DEF Connection, Abreast, ClientState, ClientStages, Sending
    <2>4. cl[c].at # "gone" => srv.cmd = <<c, cl[c].n>>
      BY <1>3, <2>1, <2>3 DEF Abreast
    <2> QED
      BY <2>2, <2>4
  <1>5. /\ Connection(c, cl[c], Tail(up[c]), down[c], hung, s)
        /\ cl[c].at # "gone" => Pending(c, cl[c], down[c], srv) /\ Pending(c, cl[c], down[c], s)
    BY <1>2, <1>3, <1>4, Consumed
  <1>6. Tail(up[c]) \in Seq(Item)
    BY <1>2, <1>3, TailShape
  <1>7. /\ srv' = s /\ up' = [up EXCEPT ![c] = Tail(up[c])] /\ down' = [down EXCEPT ![c] = down[c]]
        /\ UNCHANGED <<cl, hung, reset, backlog, disk, ledger>>
    BY <1>2 DEF Take
  <1>8. ~Doomed
    BY DEF Doomed, Reading
  <1>9. Serves(c, s, Tail(up[c]), down[c])
    BY <1>2, <1>5, <1>6, <1>7 DEF Serves
  <1>10. Pending(c, cl[c], down[c], s) => Pending(c, cl[c], down[c], srv)
    BY <1>5 DEF Pending, Sending
  <1>11. cl[c].at = "wait" => Pending(c, cl[c], down[c], s)
    BY <1>5
  <1> HIDE DEF c
  <1> QED
    BY <1>8, <1>9, <1>10, <1>11, QuietKeeps

\* The end of the server's process, whatever it leaves on disk and of the ledger.
LEMMA EndKeeps ==
  ASSUME IInv, NEW saved \in Seq(Effect), Known(saved), Whole(saved),
         NEW kept, kept \subseteq Commands, kept \subseteq Ids(saved),
         End(saved, kept)
  PROVE  IInv'
  <1> USE DEF IInv
  <1> DEFINE s == [Idle EXCEPT !.at = "down"]
             H == hung \cup { c \in Clients : cl[c].at \notin {"out", "gone"} }
  <1>1. /\ srv' = s /\ hung' = H /\ backlog' = <<>> /\ db' = <<>> /\ disk' = saved
        /\ ledger' = kept /\ up' = [c \in Clients |-> <<>>]
        /\ UNCHANGED <<cl, down, reset>>
    BY DEF End
  <1>2. s.at = "down" /\ s.cur = None /\ s.cmd = None /\ s.kind = "none" /\ s.rows = 0
    BY DEF Idle
  <1>3. Types'
    <2>1. s \in ServerState
      BY RowsAssumption DEF Idle, ServerState, ServerStages
    <2>2. ServerOK(s)
      BY <1>2, <2>1 DEF ServerOK, Answering
    <2> HIDE DEF s
    <2>3. ServerOK(srv)'
      BY <1>1, <2>2 DEF ServerOK
    <2>4. <<>> \in Seq(Item) /\ <<>> \in Seq(Clients) /\ <<>> \in Seq(Effect)
      OBVIOUS
    <2> QED
      BY <1>1, <2>3, <2>4 DEF Types
  <1>4. Connections'
    <2> SUFFICES ASSUME NEW c \in Clients
                 PROVE  Connection(c, cl[c], <<>>, down[c], H, s)
      BY <1>1 DEF Connections
    <2>1. Connection(c, cl[c], up[c], down[c], hung, srv)
      BY DEF Connections
    <2>2. c # None /\ c # s.cur
      BY <1>2
    <2>3. c \in H <=> c \in hung \/ cl[c].at \notin {"out", "gone"}
      OBVIOUS
    <2> HIDE DEF s, H
    <2> QED
      BY <1>2, <2>1, <2>2, <2>3 DEF Connection, Underway, Sending
  <1>5. Queue'
    BY <1>1 DEF Queue
  <1>6. Effects'
    <2>1. Known(db)' /\ Known(disk)'
      BY <1>1 DEF Known
    <2>2. Whole(disk)' /\ Whole(db)'
      BY <1>1 DEF Whole
    <2> QED
      BY <1>1, <1>2, <2>1, <2>2 DEF Effects
  <1>7. Acknowledged'
    <2>1. Ids(IF srv.at = "down" THEN disk ELSE db)' = Ids(saved)
      BY <1>1, <1>2 DEF Ids
    <2>2. \A c \in Clients \ hung' : cl'[c].at # "wait"
      BY <1>1
    <2> QED
      BY <1>1, <2>1, <2>2 DEF Acknowledged
  <1> QED
    BY <1>3, <1>4, <1>5, <1>6, <1>7

LEMMA DieKeeps ==
  ASSUME IInv, Die
  PROVE  IInv'
  <1>1. disk \in Seq(Effect) /\ Known(disk) /\ Whole(disk) /\ ledger \subseteq Commands
    BY DEF IInv, Types, Effects
  <1>2. End(disk, ledger \cap Ids(disk))
    BY DEF Die
  <1> DEFINE kept == ledger \cap Ids(disk)
  <1>3. kept \subseteq Commands /\ kept \subseteq Ids(disk) /\ End(disk, kept)
    BY <1>1, <1>2
  <1> HIDE DEF kept
  <1> QED
    BY <1>1, <1>3, EndKeeps

LEMMA PersistKeeps ==
  ASSUME IInv, Persist
  PROVE  IInv'
  <1>1. srv.at = "persist" /\ End(db, ledger)
    BY DEF Persist
  <1>2. db \in Seq(Effect) /\ Known(db) /\ Whole(db) /\ ledger \subseteq Commands
    BY <1>1 DEF IInv, Types, Effects, Doomed
  <1>3. ledger \subseteq Ids(db)
    BY <1>1 DEF IInv, Acknowledged
  <1> QED
    BY <1>1, <1>2, <1>3, EndKeeps

LEMMA StartKeeps ==
  ASSUME IInv, Start
  PROVE  IInv'
  <1> USE DEF IInv
  <1>1. /\ srv.at = "down" /\ srv' = Idle /\ db' = disk
        /\ UNCHANGED <<cl, up, down, hung, reset, backlog, disk, ledger>>
    BY DEF Start
  <1>2. Idle.at = "accept" /\ Idle.cur = None /\ Idle.cmd = None /\ Idle.kind = "none" /\ Idle.rows = 0
    BY DEF Idle
  <1>3. Types'
    <2>1. Idle \in ServerState
      BY RowsAssumption DEF Idle, ServerState, ServerStages
    <2>2. ServerOK(srv)'
      BY <1>1, <1>2, <2>1 DEF ServerOK, Answering
    <2> QED
      BY <1>1, <2>2 DEF Types
  <1>4. \A c \in Clients : c # srv.cur /\ c # Idle.cur
    BY <1>1, <1>2 DEF Types, ServerOK
  <1>5. Connections'
    <2> SUFFICES ASSUME NEW c \in Clients
                 PROVE  Connection(c, cl[c], up[c], down[c], hung, Idle)
      BY <1>1 DEF Connections
    <2> QED
      BY <1>2, <1>4, Unserved DEF Connections
  <1>6. Queue'
    <2>1. \A i \in 1 .. Len(backlog) : backlog[i] # None
      BY ElementOfSeq DEF Types
    <2> QED
      BY <1>1, <1>2, <2>1 DEF Queue
  <1>7. \A c \in Clients \ hung : cl[c].at \notin Sending
    BY <1>1 DEF Connections, Connection
  <1>8. Effects'
    <2>1. Known(db)' /\ Known(disk)' /\ Whole(db)' /\ Whole(disk)'
      BY <1>1 DEF Effects, Known, Whole
    <2>2. \A c \in Clients \ hung : ~Pending(c, cl'[c], down'[c], srv')
      BY <1>1, <1>7 DEF Pending
    <2> QED
      BY <1>1, <1>2, <2>1, <2>2 DEF Effects
  <1>9. Acknowledged'
    <2>1. Ids(IF srv.at = "down" THEN disk ELSE db)' = Ids(disk)
      BY <1>1, <1>2 DEF Ids
    <2>2. \A c \in Clients \ hung : cl[c].at # "wait"
      BY <1>7 DEF Sending
    <2> QED
      BY <1>1, <2>1, <2>2 DEF Acknowledged
  <1> QED
    BY <1>3, <1>5, <1>6, <1>8, <1>9

LEMMA AcceptKeeps ==
  ASSUME IInv, Accept
  PROVE  IInv'
  <1> USE DEF IInv
  <1> DEFINE c == Head(backlog)
             s == [srv EXCEPT !.at = "header", !.cur = c]
  <1>1. /\ srv.at = "accept" /\ backlog # <<>> /\ srv' = s /\ backlog' = Tail(backlog)
        /\ UNCHANGED <<cl, up, down, hung, reset, db, disk, ledger>>
    BY DEF Accept
  <1>2. /\ backlog' \in Seq(Clients) /\ Len(backlog') = Len(backlog) - 1
        /\ \A i \in 1 .. Len(backlog') : backlog'[i] = backlog[i + 1]
        /\ c = backlog[1] /\ Len(backlog) \in Nat /\ Len(backlog) >= 1
    BY <1>1, TailShape DEF Types
  <1>3. c \in Clients
    BY <1>2, ElementOfSeq DEF Types
  <1>4. c \notin hung /\ cl[c].at # "out"
    BY <1>2 DEF Queue
  <1>5. /\ s.at = "header" /\ s.cur = c /\ s.kind = srv.kind /\ s.cmd = srv.cmd /\ s.rows = srv.rows
        /\ s \in ServerState
    BY <1>3 DEF Types, ServerOK, ServerState, ServerStages
  <1> HIDE DEF s, c
  <1>6. Types'
    <2>1. ServerOK(srv)'
      BY <1>1, <1>3, <1>5 DEF Types, ServerOK, Answering
    <2> QED
      BY <1>1, <1>2, <2>1 DEF Types
  <1>7. srv.cur = None /\ \A x \in Clients : x # srv.cur
    BY <1>1 DEF Types, ServerOK
  <1>8. ASSUME NEW x \in Clients
        PROVE  Connection(x, cl[x], up[x], down[x], hung, s)
    <2>1. Connection(x, cl[x], up[x], down[x], hung, srv)
      BY DEF Connections
    <2>2. CASE x # c
      BY <1>1, <1>5, <1>7, <2>1, <2>2, Unserved
    <2>3. CASE x = c
      <3>1. Taken(x, s) = 0 /\ Taken(x, srv) = 0
        BY <1>5, <1>7 DEF Taken
      <3>2. Underway(x, cl[x], up[x], s)
        BY <1>5, <2>1, <3>1 DEF Connection, Underway, Reading
      <3>3. cl[x].at # "gone" => Abreast(x, cl[x], up[x], down[x], s)
        BY <1>4, <1>5, <1>7, <2>1, <2>3, <3>1 DEF Connection, Abreast, Pending, Reading
      <3> QED
        BY <1>4, <1>5, <2>1, <2>3, <3>2, <3>3 DEF Connection
    <2> QED
      BY <2>2, <2>3
  <1>9. Connections'
    BY <1>1, <1>8 DEF Connections
  <1>10. Queue'
    <2>1. \A i \in 1 .. Len(backlog') : i + 1 \in 1 .. Len(backlog) /\ backlog'[i] = backlog[i + 1]
      BY <1>2
    <2>2. ASSUME NEW i \in 1 .. Len(backlog')
          PROVE  cl[backlog'[i]].at # "out" /\ backlog'[i] \notin hung /\ backlog'[i] # c
      <3>1. cl[backlog[i + 1]].at # "out" /\ backlog[i + 1] \notin hung
        BY <2>1 DEF Queue
      <3>2. backlog[i + 1] # backlog[1]
        BY <1>2, <2>1 DEF Queue
      <3> QED
        BY <1>2, <2>1, <3>1, <3>2
    <2>3. ASSUME NEW i \in 1 .. Len(backlog'), NEW j \in 1 .. Len(backlog'), backlog'[i] = backlog'[j]
          PROVE  i = j
      <3>1. i + 1 = j + 1
        BY <2>1, <2>3 DEF Queue
      <3> QED
        BY <3>1
    <2> QED
      BY <1>1, <1>5, <2>2, <2>3 DEF Queue
  <1>11. \A x \in Clients \ hung : Pending(x, cl[x], down[x], s) <=> Pending(x, cl[x], down[x], srv)
    BY <1>5, <1>7 DEF Pending, Reading
  <1>12. Effects'
    <2>1. Known(db)' /\ Known(disk)' /\ Whole(disk)' /\ (Whole(db) => Whole(db)')
      BY <1>1 DEF Effects, Known, Whole
    <2>2. ~Doomed
      BY <1>1 DEF Doomed
    <2> QED
      BY <1>1, <1>5, <1>11, <2>1, <2>2 DEF Effects
  <1>13. Acknowledged'
    <2>1. Ids(IF srv.at = "down" THEN disk ELSE db)' = Ids(db) /\ Ids(db)' = Ids(db)
      BY <1>1, <1>5 DEF Ids
    <2> QED
      BY <1>1, <1>11, <2>1 DEF Acknowledged
  <1> QED
    BY <1>6, <1>9, <1>10, <1>12, <1>13

\* The server closes the connection of a client that is gone, once it has read all.
LEMMA CloseKeeps ==
  ASSUME IInv, NEW c, c = srv.cur, srv.at = "header", up[c] = <<>>, cl[c].at = "gone",
         srv' = [srv EXCEPT !.at = "accept", !.cur = None],
         hung' = hung \cup {c},
         UNCHANGED <<cl, up, down, reset, backlog, db, disk, ledger>>
  PROVE  IInv'
  <1> USE DEF IInv
  <1> DEFINE s == [srv EXCEPT !.at = "accept", !.cur = None]
             H == hung \cup {c}
  <1>1. c \in Clients /\ c \notin hung /\ ServerOK(srv) /\ srv \in ServerState
    BY OfServer
  <1>2. /\ s.at = "accept" /\ s.cur = None /\ s.kind = srv.kind /\ s.cmd = srv.cmd /\ s.rows = srv.rows
        /\ s \in ServerState
    BY <1>1 DEF ServerState, ServerStages
  <1>3. srv' = s /\ hung' = H
    OBVIOUS
  <1>4. \A x \in Clients : x # s.cur /\ (x # c => (x \in H <=> x \in hung) /\ x # srv.cur)
    BY <1>2
  <1>5. H \subseteq Clients /\ c \in H /\ hung \subseteq H
    BY <1>1 DEF Types
  <1> HIDE DEF s, H
  <1>6. Types'
    <2>1. ServerOK(s)
      BY <1>1, <1>2 DEF ServerOK, Answering
    <2>2. ServerOK(srv)'
      BY <1>3, <2>1 DEF ServerOK
    <2> QED
      BY <1>3, <1>5, <2>2 DEF Types
  <1>7. ASSUME NEW x \in Clients
        PROVE  Connection(x, cl[x], up[x], down[x], H, s)
    <2>1. Connection(x, cl[x], up[x], down[x], hung, srv)
      BY DEF Connections
    <2>2. CASE x # c
      BY <1>2, <1>4, <2>1, <2>2, Unserved
    <2>3. CASE x = c
      BY <1>2, <1>4, <1>5, <2>1, <2>3 DEF Connection, Underway, Sending
    <2> QED
      BY <2>2, <2>3
  <1>8. Connections'
    BY <1>3, <1>7 DEF Connections
  <1>9. Queue'
    <2>1. \A i \in 1 .. Len(backlog) : backlog[i] \in Clients
      BY ElementOfSeq DEF Types
    <2> QED
      BY <1>3, <1>4, <2>1 DEF Queue
  <1>10. \A x \in Clients \ H : x # c /\ x \in Clients \ hung
    BY <1>5
  <1>11. \A x \in Clients \ H : Pending(x, cl[x], down[x], s) <=> Pending(x, cl[x], down[x], srv)
    BY <1>4, <1>10 DEF Pending
  <1>12. Effects'
    <2>1. Known(db)' /\ Known(disk)' /\ Whole(disk)' /\ (Whole(db) => Whole(db)')
      BY DEF Effects, Known, Whole
    <2>2. ~Doomed
      BY DEF Doomed
    <2>3. \A x \in Clients \ H : Pending(x, cl[x], down[x], s) =>
            \A i \in DOMAIN db : db[i].cmd[1] = x => db[i].cmd[2] < cl[x].n
      BY <1>10, <1>11, <2>2 DEF Effects
    <2> QED
      BY <1>2, <1>3, <2>1, <2>2, <2>3 DEF Effects
  <1>13. Acknowledged'
    <2>1. Ids(IF srv.at = "down" THEN disk ELSE db)' = Ids(db) /\ Ids(db)' = Ids(db)
      BY <1>2, <1>3 DEF Ids
    <2> QED
      BY <1>3, <1>10, <1>11, <2>1 DEF Acknowledged
  <1> QED
    BY <1>6, <1>8, <1>9, <1>12, <1>13

\* Receives of which the server only counts that they came, or that end the session.
LEMMA RecvsKeep ==
  ASSUME IInv, RecvHeader \/ RecvSize \/ RecvNames \/ RecvRow
  PROVE  IInv'
  <1>1. ServerOK(srv) /\ srv \in ServerState
    BY DEF IInv, Types, ServerOK
  <1>2. CASE RecvHeader
    <2> DEFINE s == [srv EXCEPT !.at = "command"]
    <2>1. CASE Received /\ Take(s) /\ UNCHANGED db
      <3>1. srv.at = "header"
        BY <1>2 DEF RecvHeader
      <3>2. /\ s.at = "command" /\ s.cur = srv.cur /\ s.kind = srv.kind /\ s.cmd = srv.cmd
            /\ s.rows = srv.rows /\ s \in ServerState
        BY <1>1 DEF ServerState, ServerStages
      <3> HIDE DEF s
      <3>3. ServerOK(s)
        BY <1>1, <3>1, <3>2 DEF ServerOK, Answering
      <3>4. Taken(srv.cur, s) = Taken(srv.cur, srv) + 1
        BY <3>1, <3>2 DEF Taken
      <3> QED
        BY <2>1, <3>1, <3>2, <3>3, <3>4, TakeKeeps DEF Reading
    <2>2. CASE Die
      BY <2>2, DieKeeps
    <2>3. CASE /\ Closed
               /\ srv' = [srv EXCEPT !.at = "accept", !.cur = None]
               /\ hung' = hung \cup {srv.cur}
               /\ UNCHANGED <<cl, up, down, reset, backlog, db, disk, ledger>>
      BY <1>2, <2>3, CloseKeeps DEF RecvHeader, Closed, Gone
    <2> QED
      BY <1>2, <2>1, <2>2, <2>3 DEF RecvHeader
  <1>3. CASE RecvSize
    <2> DEFINE s == [srv EXCEPT !.at = "names"]
    <2>1. CASE Received /\ Take(s) /\ UNCHANGED db
      <3>1. srv.at = "size"
        BY <1>3 DEF RecvSize
      <3>2. /\ s.at = "names" /\ s.cur = srv.cur /\ s.kind = srv.kind /\ s.cmd = srv.cmd
            /\ s.rows = srv.rows /\ s \in ServerState
        BY <1>1 DEF ServerState, ServerStages
      <3> HIDE DEF s
      <3>3. ServerOK(s)
        BY <1>1, <3>1, <3>2 DEF ServerOK, Answering
      <3>4. Taken(srv.cur, s) = Taken(srv.cur, srv) + 1
        BY <3>1, <3>2 DEF Taken
      <3> QED
        BY <2>1, <3>1, <3>2, <3>3, <3>4, TakeKeeps DEF Reading
    <2>2. CASE Die
      BY <2>2, DieKeeps
    <2> QED
      BY <1>3, <2>1, <2>2 DEF RecvSize
  <1>4. CASE RecvNames
    <2> DEFINE s == [srv EXCEPT !.at = "rows"]
    <2>1. CASE Received /\ Take(s) /\ UNCHANGED db
      <3>1. srv.at = "names" /\ srv.rows = 0
        BY <1>1, <1>4 DEF RecvNames, ServerOK
      <3>2. /\ s.at = "rows" /\ s.cur = srv.cur /\ s.kind = srv.kind /\ s.cmd = srv.cmd
            /\ s.rows = srv.rows /\ s \in ServerState
        BY <1>1 DEF ServerState, ServerStages
      <3> HIDE DEF s
      <3>3. ServerOK(s)
        BY <1>1, <3>1, <3>2 DEF ServerOK, Answering
      <3>4. Taken(srv.cur, s) = Taken(srv.cur, srv) + 1
        BY <3>1, <3>2 DEF Taken
      <3> QED
        BY <2>1, <3>1, <3>2, <3>3, <3>4, TakeKeeps DEF Reading
    <2>2. CASE Die
      BY <2>2, DieKeeps
    <2> QED
      BY <1>4, <2>1, <2>2 DEF RecvNames
  <1>5. CASE RecvRow
    <2> DEFINE s == [srv EXCEPT !.rows = @ + 1]
               c == srv.cur
    <2>1. srv.at = "rows" /\ Received /\ Head(up[c]).type # "token" /\ Take(s) /\ db' = db
      BY <1>5 DEF RecvRow
    <2>2. /\ up[c] \in Seq(Item) /\ up[c] # <<>> /\ Underway(c, cl[c], up[c], srv) /\ srv.rows \in 0 .. Rows
          /\ srv.cur = c
      BY <1>1, <2>1, OfServer DEF Received, Connection, ServerState
    <2>3. srv.rows < Rows
      <3>1. Taken(c, srv) = 4 + srv.rows
        BY <2>1 DEF Taken
      <3>2. /\ Head(up[c]) = up[c][1] /\ 1 \in 1 .. Len(up[c]) /\ Len(up[c]) \in Nat
        BY <2>2, TailShape
      <3>3. up[c][1] = [type |-> Script[4 + srv.rows + 1], cmd |-> <<c, cl[c].n>>, kind |-> up[c][1].kind]
        BY <2>2, <3>1, <3>2 DEF Underway
      <3>4. Script[4 + srv.rows + 1] # "token"
        BY <2>1, <3>2, <3>3
      <3>5. 4 + srv.rows + 1 <= Length("load")
        <4>1. up[c][1].kind = "load" /\ Taken(c, srv) + Len(up[c]) <= Length(up[c][1].kind)
          BY <2>2, <3>1 DEF Underway
        <4>2. Length("load") = 3 + Len(Stream) /\ Len(Stream) \in Nat
          BY ScriptShape DEF Length
        <4> QED
          BY <2>2, <3>1, <3>2, <4>1, <4>2
      <3>6. srv.rows + 2 \in 1 .. Len(Stream) /\ 4 + srv.rows + 1 = 3 + (srv.rows + 2)
        BY <2>2, <3>5, ScriptShape DEF Length
      <3>7. Stream[srv.rows + 2] # "token"
        BY <3>4, <3>6, ScriptShape
      <3>8. srv.rows + 2 # Rows + 2
        BY <3>6, <3>7, StreamShape
      <3> QED
        BY <2>2, <3>8, RowsAssumption
    <2>4. srv.rows + 1 \in 0 .. Rows
      BY <2>2, <2>3, RowsAssumption
    <2>5. /\ s.at = "rows" /\ s.cur = srv.cur /\ s.kind = srv.kind /\ s.cmd = srv.cmd
          /\ s.rows = srv.rows + 1 /\ s \in ServerState
      BY <1>1, <2>1, <2>4 DEF ServerState, ServerStages
    <2> HIDE DEF s, c
    <2>6. ServerOK(s)
      BY <1>1, <2>1, <2>5 DEF ServerOK, Answering
    <2>7. Taken(srv.cur, s) = Taken(srv.cur, srv) + 1
      BY <2>1, <2>2, <2>5 DEF Taken
    <2> QED
      BY <2>1, <2>5, <2>6, <2>7, TakeKeeps DEF Reading
  <1> QED
    BY <1>2, <1>3, <1>4, <1>5

\* The server has all of a command: of a client that waits for it, or of one that is gone.
LEMMA Complete ==
  ASSUME IInv, NEW c, c = srv.cur, srv.at \in Reading, NEW s, ServerOK(s), s.cur = c,
         s.at = "status",
         cl[c].at # "gone" => /\ cl[c].at = "wait" /\ Pending(c, cl[c], down[c], srv)
                              /\ s.kind = cl[c].kind /\ s.cmd = <<c, cl[c].n>>,
         up' = [up EXCEPT ![c] = <<>>], srv' = s,
         s.kind \in {"insert", "load"} => s.cmd[2] <= cl[s.cmd[1]].n,
         UNCHANGED <<cl, down, hung, reset, backlog, disk, ledger>>
  PROVE  Serves(c, s, <<>>, down[c])
  <1>1. srv.at \notin {"accept", "down"}
    BY DEF Reading
  <1>2. /\ c \in Clients /\ c \notin hung /\ down[c] \in Seq(Item)
        /\ Connection(c, cl[c], up[c], down[c], hung, srv)
        /\ down = [down EXCEPT ![c] = down[c]]
    BY <1>1, OfServer
  <1>3. <<>> \in Seq(Item)
    OBVIOUS
  <1>4. cl[c].at # "gone" => Abreast(c, cl[c], <<>>, down[c], s)
    BY DEF Abreast, Pending, Reading
  <1>5. Connection(c, cl[c], <<>>, down[c], hung, s)
    BY <1>2, <1>4 DEF Connection, Underway
  <1> QED
    BY <1>2, <1>3, <1>5 DEF Serves

LEMMA CommandIsSome ==
  /\ \A cmd \in Commands : cmd # None
  /\ "none" \notin Kinds
  <1>1. ASSUME NEW cmd \in Commands
        PROVE  cmd # <<>>
    <2>1. DOMAIN cmd = 1 .. 2
      BY DEF Commands
    <2>2. DOMAIN <<>> = 1 .. 0
      OBVIOUS
    <2>3. 1 \in 1 .. 2 /\ 1 \notin 1 .. 0
      OBVIOUS
    <2> QED
      BY <2>1, <2>2, <2>3
  <1>2. "none" \notin Kinds
    BY DEF Kinds
  <1> QED
    BY <1>1, <1>2 DEF None

LEMMA RecvCommandKeeps ==
  ASSUME IInv, RecvCommand
  PROVE  IInv'
  <1> DEFINE c == srv.cur
             k == cl[c]
  <1>1. srv.at = "command" /\ srv.at \in Reading
    BY DEF RecvCommand, Reading
  <1>2. /\ c \in Clients /\ c \notin hung
        /\ k \in ClientState /\ up[c] \in Seq(Item) /\ down[c] \in Seq(Item)
        /\ Connection(c, k, up[c], down[c], hung, srv)
        /\ ServerOK(srv) /\ srv \in ServerState
        /\ srv.kind \in {"insert", "load"} => srv.cmd[2] <= cl[srv.cmd[1]].n
        /\ up = [up EXCEPT ![c] = up[c]] /\ down = [down EXCEPT ![c] = down[c]]
    BY <1>1, OfServer
  <1>3. Taken(c, srv) = 1 /\ ~Doomed
    BY <1>1 DEF Taken, Doomed
  <1>4. CASE Received
    <2> DEFINE item == Head(up[c])
               t == [srv EXCEPT !.cmd = item.cmd, !.kind = item.kind]
               v == Tail(up[c])
    <2>1. up[c] # <<>> /\ Underway(c, k, up[c], srv)
      BY <1>2, <1>4 DEF Received, Connection
    <2>2. /\ v \in Seq(Item) /\ item = up[c][1] /\ Len(up[c]) \in Nat /\ Len(up[c]) >= 1
          /\ Len(v) = Len(up[c]) - 1 /\ (Len(v) = 0 => v = <<>>)
      BY <1>2, <2>1, TailShape
    <2>3. item \in Item /\ item.cmd \in Commands /\ item.kind \in Kinds
      <3>1. up[c][1] \in Item
        BY <1>2, <2>2, ElementOfSeq
      <3> QED
        BY <2>2, <3>1 DEF Item
    <2>4. item.cmd = <<c, k.n>>
      <3>1. up[c][1] = [type |-> Script[1 + 1], cmd |-> <<c, k.n>>, kind |-> up[c][1].kind]
        BY <1>3, <2>1, <2>2 DEF Underway
      <3> QED
        BY <2>2, <3>1
    <2>5. k.n \in Nat /\ item.cmd[2] <= cl[item.cmd[1]].n
      BY <1>2, <2>4, RowsAssumption DEF ClientState
    <2>6. k.at # "gone" => /\ k.at \in Sending /\ Pending(c, k, down[c], srv)
                           /\ item.kind = k.kind /\ 1 + Len(up[c]) = Sent(k)
      <3> SUFFICES ASSUME k.at # "gone"
                   PROVE  /\ k.at \in Sending /\ Pending(c, k, down[c], srv)
                          /\ item.kind = k.kind /\ 1 + Len(up[c]) = Sent(k)
        OBVIOUS
      <3>1. Abreast(c, k, up[c], down[c], srv) /\ k.at # "out"
        BY <1>2 DEF Connection
      <3>2. k.at \in Sending
        BY <1>2, <2>1, <3>1 DEF Abreast, ClientState, ClientStages, Sending
      <3> QED
        BY <1>3, <2>1, <2>2, <3>1, <3>2 DEF Abreast
    <2>7. item.kind # "load" => v = <<>> /\ (k.at # "gone" => k.at = "wait")
      <3> SUFFICES ASSUME item.kind # "load"
                   PROVE  v = <<>> /\ (k.at # "gone" => k.at = "wait")
        OBVIOUS
      <3>1. 1 + Len(up[c]) <= 2
        BY <1>3, <2>1, <2>2 DEF Underway, Length
      <3>2. Len(up[c]) = 1
        <4> DEFINE n == Len(up[c])
        <4>1. n \in Nat /\ n >= 1 /\ 1 + n <= 2
          BY <2>2, <3>1
        <4> HIDE DEF n
        <4>2. n = 1
          BY <4>1
        <4> QED
          BY <4>2 DEF n
      <3>3. k.at # "gone" => k.at = "wait"
        BY <1>2, <2>6, <3>2, StreamShape DEF Connection, Sending, Sent
      <3> QED
        BY <2>2, <3>2, <3>3
    <2>8. /\ t.at = "command" /\ t.cur = c /\ t.cmd = item.cmd /\ t.kind = item.kind /\ t.rows = 0
          /\ t \in ServerState
      BY <1>1, <1>2, <2>3 DEF ServerOK, ServerState
    <2>9. CASE item.kind = "garbled"
      BY <1>1, <1>4, <2>9, <2>1, DieKeeps DEF RecvCommand, Closed
    <2>10. CASE item.kind # "garbled"
      <3>1. /\ Execute(t) /\ up' = [up EXCEPT ![c] = v]
            /\ UNCHANGED <<cl, down, hung, reset, backlog, disk, ledger>>
        BY <1>4, <2>1, <2>10 DEF RecvCommand, Closed
      <3> DEFINE reading == [t EXCEPT !.at = "size"]
                 done == [t EXCEPT !.at = "status"]
      <3>2. /\ reading.at = "size" /\ reading.cur = c /\ reading.cmd = item.cmd
            /\ reading.kind = item.kind /\ reading.rows = 0 /\ reading \in ServerState
        BY <2>8 DEF ServerState, ServerStages
      <3>3. /\ done.at = "status" /\ done.cur = c /\ done.cmd = item.cmd
            /\ done.kind = item.kind /\ done.rows = 0 /\ done \in ServerState
        BY <2>8 DEF ServerState, ServerStages
      <3>4. item.cmd # None /\ item.kind # "none"
        BY <2>3, CommandIsSome
      <3>5. CASE item.kind = "load"
        <4>1. srv' = reading /\ db' = db
          BY <2>8, <3>1, <3>5 DEF Execute
        <4>2. c # None
          BY <1>2
        <4> HIDE DEF item, t, v, reading, c, k
        <4>3. ServerOK(reading)
          BY <3>2, <3>4, <3>5, <4>2 DEF ServerOK, Answering
        <4>4. Taken(c, reading) = 2 /\ reading.at \in Reading
          BY <3>2 DEF Taken, Reading
        <4>5. Taken(c, reading) = Taken(c, srv) + 1
          BY <1>3, <4>4
        <4>6. /\ Connection(c, k, v, down[c], hung, reading)
              /\ k.at # "gone" => Pending(c, k, down[c], srv) /\ Pending(c, k, down[c], reading)
          <5>1. up[c][1].kind = "load" /\ reading.cmd = <<c, k.n>> /\ srv.cur = c
            BY <2>2, <2>4, <3>2, <3>5 DEF c
          <5>2. /\ c \in Clients /\ c \notin hung /\ k \in ClientState /\ up[c] \in Seq(Item)
                /\ Connection(c, k, up[c], down[c], hung, srv)
            BY <1>2
          <5>3. up[c] # <<>> /\ reading.cur = c /\ Taken(c, srv) \in Nat
            BY <1>3, <2>1, <3>2
          <5>4. v = Tail(up[c])
            BY DEF v
          <5> QED
            BY <4>4, <4>5, <5>1, <5>2, <5>3, <5>4, Consumed
        <4>7. Serves(c, reading, v, down[c])
          BY <1>2, <2>2, <2>5, <3>1, <3>2, <4>1, <4>3, <4>6 DEF Serves, c, k
        <4>8. k.at = "wait" => Pending(c, k, down[c], reading)
          BY <4>6
        <4>9. Pending(c, k, down[c], reading) => Pending(c, k, down[c], srv)
          BY <4>6 DEF Pending, Sending
        <4> QED
          BY <1>3, <4>1, <4>7, <4>8, <4>9, QuietKeeps DEF k
      <3>6. CASE item.kind # "load"
        <4>1. srv' = done
          BY <2>8, <3>1, <3>6 DEF Execute
        <4>2. db' = IF item.kind = "insert"
                    THEN Append(db, [cmd |-> item.cmd, kind |-> "insert", rows |-> 1]) ELSE db
          BY <2>8, <3>1, <3>6 DEF Execute
        <4>3. c # None
          BY <1>2
        <4>4. v = <<>> /\ (k.at # "gone" => k.at = "wait")
          BY <2>7, <3>6
        <4> HIDE DEF item, t, v, done, c, k
        <4>5. ServerOK(done)
          BY <3>3, <3>4, <3>6, <4>3 DEF ServerOK, Answering
        <4>6. Serves(c, done, <<>>, down[c])
          BY <1>1, <2>4, <2>5, <2>6, <3>1, <3>3, <4>1, <4>4, <4>5, Complete DEF c, k
        <4>7. CASE item.kind = "insert"
          <5> DEFINE e == [cmd |-> item.cmd, kind |-> "insert", rows |-> 1]
          <5>1. e \in Effect /\ e.cmd = item.cmd /\ e.rows = 1 /\ e.kind = "insert"
            BY <2>3, RowsAssumption DEF Effect, Commands
          <5>2. db' = Append(db, e)
            BY <4>2, <4>7
          <5> HIDE DEF e
          <5> QED
            BY <2>4, <2>5, <2>6, <3>3, <4>6, <5>1, <5>2, EffectKeeps DEF k
        <4>8. CASE item.kind # "insert"
          <5>1. db' = db
            BY <4>2, <4>8
          <5>2. ~Pending(c, k, down[c], done)
            BY <3>3 DEF Pending, Reading
          <5>3. k.at = "wait" => k.kind \notin {"insert", "load"}
            BY <2>6, <3>6, <4>8
          <5> QED
            BY <1>3, <4>6, <5>1, <5>2, <5>3, QuietKeeps DEF k
        <4> QED
          BY <4>7, <4>8
      <3> QED
        BY <3>5, <3>6
    <2> QED
      BY <2>9, <2>10
  \* The client is gone: the server carries out what its buffer has been left with.
  <1>5. CASE Closed
    <2>1. up[c] = <<>> /\ k.at = "gone"
      BY <1>5 DEF Closed, Gone
    <2>2. PICK kind \in {"query", srv.kind} \ {"none"} : Execute([srv EXCEPT !.kind = kind])
      BY <1>5, <2>1 DEF RecvCommand, Received
    <2>3. UNCHANGED <<cl, up, down, hung, reset, backlog, disk, ledger>>
      BY <1>5, <2>1 DEF RecvCommand, Received
    <2> DEFINE t == [srv EXCEPT !.kind = kind]
               reading == [t EXCEPT !.at = "size"]
               done == [t EXCEPT !.at = "status"]
    <2>4. /\ t.at = "command" /\ t.cur = c /\ t.cmd = srv.cmd /\ t.kind = kind /\ t.rows = 0
          /\ t \in ServerState
      BY <1>1, <1>2, <2>2 DEF ServerOK, ServerState, Kinds
    <2>5. /\ reading.at = "size" /\ reading.cur = c /\ reading.cmd = srv.cmd
          /\ reading.kind = kind /\ reading.rows = 0 /\ reading \in ServerState
      BY <2>4 DEF ServerState, ServerStages
    <2>6. /\ done.at = "status" /\ done.cur = c /\ done.cmd = srv.cmd
          /\ done.kind = kind /\ done.rows = 0 /\ done \in ServerState
      BY <2>4 DEF ServerState, ServerStages
    <2>7. kind \in {"insert", "load"} => srv.cmd # None /\ kind = srv.kind
      BY <1>2, <2>2 DEF ServerOK
    <2>8. c # None
      BY <1>2
    <2>9. up' = [up EXCEPT ![c] = <<>>]
      BY <1>2, <2>1, <2>3
    <2>10. CASE kind = "load"
      <3>1. srv' = reading /\ db' = db
        BY <2>2, <2>4, <2>10 DEF Execute
      <3> HIDE DEF t, reading, done, c, k
      <3>2. ServerOK(reading)
        BY <2>5, <2>7, <2>8, <2>10 DEF ServerOK, Answering
      <3>3. Connection(c, k, <<>>, down[c], hung, reading)
        BY <1>2, <2>1, <2>5 DEF Connection, Underway
      <3>4. <<>> \in Seq(Item)
        OBVIOUS
      <3>5. Serves(c, reading, <<>>, down[c])
        BY <1>2, <2>3, <2>5, <2>7, <2>9, <2>10, <3>1, <3>2, <3>3, <3>4 DEF Serves, c, k
      <3>6. ~Pending(c, k, down[c], reading)
        BY <2>1 DEF Pending, Sending
      <3> QED
        BY <1>3, <2>1, <3>1, <3>5, <3>6, QuietKeeps DEF k
    <2>11. CASE kind # "load"
      <3>1. srv' = done
        BY <2>2, <2>4, <2>11 DEF Execute
      <3>2. db' = IF kind = "insert"
                  THEN Append(db, [cmd |-> srv.cmd, kind |-> "insert", rows |-> 1]) ELSE db
        BY <2>2, <2>4, <2>11 DEF Execute
      <3> HIDE DEF t, reading, done, c, k
      <3>3. ServerOK(done)
        BY <2>2, <2>6, <2>7, <2>8, <2>11 DEF ServerOK, Answering
      <3>4. Serves(c, done, <<>>, down[c])
        BY <1>1, <1>2, <2>1, <2>3, <2>6, <2>7, <2>9, <3>1, <3>3, Complete DEF c, k
      <3>5. CASE kind = "insert"
        <4> DEFINE e == [cmd |-> srv.cmd, kind |-> "insert", rows |-> 1]
        <4>1. srv.cmd \in Commands
          BY <1>2, <2>7, <3>5 DEF ServerState
        <4>2. e \in Effect /\ e.cmd = srv.cmd
          BY <4>1, RowsAssumption DEF Effect, Commands
        <4>3. db' = Append(db, e)
          BY <3>2, <3>5
        <4> HIDE DEF e
        <4>4. e.cmd[2] <= cl[e.cmd[1]].n
          BY <1>2, <2>7, <3>5, <4>2
        <4> QED
          BY <2>1, <2>6, <3>4, <4>2, <4>3, <4>4, EffectKeeps DEF k
      <3>6. CASE kind # "insert"
        <4>1. db' = db
          BY <3>2, <3>6
        <4>2. ~Pending(c, k, down[c], done)
          BY <2>1 DEF Pending, Sending
        <4> QED
          BY <1>3, <2>1, <3>4, <4>1, <4>2, QuietKeeps DEF k
      <3> QED
        BY <3>5, <3>6
    <2> QED
      BY <2>10, <2>11
  <1> QED
    BY <1>4, <1>5 DEF RecvCommand

\* The load ends behind the token, with all rows; or with a client that is gone.
LEMMA EndLoadKeeps ==
  ASSUME IInv, EndLoad
  PROVE  IInv'
  <1> DEFINE c == srv.cur
             k == cl[c]
             s == [srv EXCEPT !.at = "status", !.rows = 0]
             e == [cmd |-> srv.cmd, kind |-> "load", rows |-> srv.rows]
  <1>1. srv.at = "rows" /\ srv.at \in Reading
    BY DEF EndLoad, Reading
  <1>2. /\ c \in Clients /\ c \notin hung
        /\ k \in ClientState /\ up[c] \in Seq(Item) /\ down[c] \in Seq(Item)
        /\ Connection(c, k, up[c], down[c], hung, srv)
        /\ ServerOK(srv) /\ srv \in ServerState
        /\ srv.kind \in {"insert", "load"} => srv.cmd[2] <= cl[srv.cmd[1]].n
        /\ up = [up EXCEPT ![c] = up[c]]
    BY <1>1, OfServer
  <1>3. srv.kind = "load" /\ srv.cmd # None /\ srv.cmd \in Commands /\ srv.rows \in 0 .. Rows
    BY <1>1, <1>2 DEF ServerOK, ServerState
  <1>4. Taken(c, srv) = 4 + srv.rows
    BY <1>1 DEF Taken
  <1>5. /\ s.at = "status" /\ s.cur = c /\ s.kind = "load" /\ s.cmd = srv.cmd /\ s.rows = 0
        /\ s \in ServerState
    <2>1. 0 \in 0 .. Rows
      BY RowsAssumption
    <2>2. "status" \in ServerStages
      BY DEF ServerStages
    <2>3. srv \in ServerState
      BY <1>2
    <2>4. s \in ServerState
      BY <2>1, <2>2, <2>3 DEF ServerState
    <2> QED
      BY <1>3, <2>3, <2>4 DEF ServerState
  <1>6. e \in Effect /\ e.cmd = srv.cmd /\ e.kind = "load" /\ e.rows = srv.rows
    <2>1. srv.rows \in 0 .. Rows + 1
      BY <1>3, RowsAssumption
    <2> QED
      BY <1>3, <2>1 DEF Effect, Commands
  <1>7. srv' = s /\ db' = Append(db, e) /\ UNCHANGED <<cl, down, hung, reset, backlog, disk, ledger>>
    BY DEF EndLoad
  <1>8. c # None
    BY <1>2
  <1>9. e.cmd[2] <= cl[e.cmd[1]].n
    BY <1>2, <1>3
  <1>10. CASE Received /\ Head(up[c]).type = "token" /\ up' = [up EXCEPT ![c] = Tail(@)]
    <2> DEFINE u == up[c]
               n == Len(u)
    <2>1. u # <<>> /\ Underway(c, k, u, srv)
      BY <1>2, <1>10 DEF Received, Connection
    <2>2. /\ Head(u) = u[1] /\ n \in Nat /\ n >= 1 /\ Len(Tail(u)) = n - 1
          /\ (Len(Tail(u)) = 0 => Tail(u) = <<>>)
      BY <1>2, <2>1, TailShape
    <2>3. /\ u[1].type = Script[4 + srv.rows + 1] /\ u[1].kind = "load"
          /\ 4 + srv.rows + n <= 3 + Len(Stream)
      <3>1. u[1] = [type |-> Script[4 + srv.rows + 1], cmd |-> <<c, k.n>>, kind |-> u[1].kind]
        BY <1>4, <2>1, <2>2 DEF Underway
      <3>2. u[1].kind = "load"
        BY <1>3, <1>4, <2>1 DEF Underway
      <3>3. 4 + srv.rows + n <= Length("load")
        BY <1>4, <2>1, <3>2 DEF Underway
      <3> QED
        BY <3>1, <3>2, <3>3 DEF Length
    <2>4. u[1].type = "token"
      BY <1>10, <2>2
    <2> HIDE DEF u, n
    <2>5. srv.rows + 2 \in 1 .. Len(Stream) /\ 4 + srv.rows + 1 = 3 + (srv.rows + 2)
      <3> DEFINE r == srv.rows
                 m == Len(Stream)
      <3>1. r \in Nat
        BY <1>3, RowsAssumption
      <3>2. m \in Nat
        BY ScriptShape
      <3>3. n \in Nat /\ n >= 1 /\ 4 + r + n <= 3 + m
        BY <2>2, <2>3
      <3> HIDE DEF r, m
      <3>4. r + 2 \in 1 .. m /\ 4 + r + 1 = 3 + (r + 2)
        BY <3>1, <3>2, <3>3
      <3> QED
        BY <3>4 DEF r, m
    <2>6. Stream[srv.rows + 2] = "token"
      BY <2>3, <2>4, <2>5, ScriptShape
    <2>7. srv.rows = Rows
      <3>1. srv.rows + 2 = Rows + 2
        BY <2>5, <2>6, StreamShape
      <3> QED
        BY <1>3, <3>1, RowsAssumption
    <2>8. n = 1 /\ Len(Stream) = Rows + 2
      BY <2>2, <2>3, <2>5, <2>7, StreamShape, ScriptShape, RowsAssumption
    <2>9. Tail(u) = <<>> /\ up' = [up EXCEPT ![c] = <<>>]
      <3>1. n - 1 = 0
        BY <2>8
      <3>2. Tail(u) = <<>>
        BY <2>2, <3>1
      <3> QED
        BY <1>10, <3>2 DEF u
    <2>10. k.at # "gone" => /\ k.at = "wait" /\ Pending(c, k, down[c], srv)
                            /\ k.kind = "load" /\ srv.cmd = <<c, k.n>>
      <3> SUFFICES ASSUME k.at # "gone"
                   PROVE  /\ k.at = "wait" /\ Pending(c, k, down[c], srv)
                          /\ k.kind = "load" /\ srv.cmd = <<c, k.n>>
        OBVIOUS
      <3>1. Abreast(c, k, u, down[c], srv) /\ k.at # "out"
        BY <1>2 DEF Connection, u
      <3>2. k.at \in Sending
        BY <1>2, <2>1, <3>1 DEF Abreast, ClientState, ClientStages, Sending
      <3>3. /\ Pending(c, k, down[c], srv) /\ Taken(c, srv) + n = Sent(k)
            /\ k.kind = "load" /\ srv.cmd = <<c, k.n>>
        BY <1>3, <1>4, <2>1, <3>1, <3>2 DEF Abreast, n
      <3>4. Sent(k) = 5 + Rows
        BY <1>4, <2>7, <2>8, <3>3, RowsAssumption
      <3>5. k.at = "file" => k.line \in 1 .. Len(Stream)
        BY <1>2 DEF Connection
      <3>6. k.at = "wait"
        BY <2>8, <3>2, <3>4, <3>5, RowsAssumption DEF Sent, Sending
      <3> QED
        BY <3>3, <3>6
    <2> HIDE DEF s, e, c, k
    <2>11. ServerOK(s)
      BY <1>3, <1>5, <1>8 DEF ServerOK, Answering
    <2>12. Serves(c, s, <<>>, down[c])
      BY <1>1, <1>2, <1>3, <1>5, <1>7, <2>9, <2>10, <2>11, Complete DEF c, k
    <2> QED
      BY <1>5, <1>6, <1>7, <1>9, <2>7, <2>10, <2>12, EffectKeeps DEF k
  <1>11. CASE Closed /\ up' = up
    <2>1. up[c] = <<>> /\ k.at = "gone"
      BY <1>11 DEF Closed, Gone
    <2>2. up' = [up EXCEPT ![c] = <<>>]
      BY <1>2, <1>11, <2>1
    <2> HIDE DEF s, e, c, k
    <2>3. ServerOK(s)
      BY <1>3, <1>5, <1>8 DEF ServerOK, Answering
    <2>4. Serves(c, s, <<>>, down[c])
      BY <1>1, <1>2, <1>3, <1>5, <1>7, <2>1, <2>2, <2>3, Complete DEF c, k
    <2> QED
      BY <1>5, <1>6, <1>7, <1>9, <2>1, <2>4, EffectKeeps DEF k
  <1> QED
    BY <1>10, <1>11 DEF EndLoad

\* The replies go to a client that waits for them; if it is gone they are the server's end.
LEMMA RepliesKeep ==
  ASSUME IInv, SendStatus \/ SendText
  PROVE  IInv'
  <1> DEFINE c == srv.cur
             k == cl[c]
  <1>1. srv.at \in {"status", "text"} /\ srv.at \notin Reading
    BY DEF SendStatus, SendText, Reading
  <1>2. /\ c \in Clients /\ c \notin hung
        /\ k \in ClientState /\ up[c] \in Seq(Item) /\ down[c] \in Seq(Item)
        /\ Connection(c, k, up[c], down[c], hung, srv)
        /\ ServerOK(srv) /\ srv \in ServerState
        /\ srv.kind \in {"insert", "load"} => srv.cmd[2] <= cl[srv.cmd[1]].n
        /\ up = [up EXCEPT ![c] = up[c]]
    BY <1>1, OfServer
  <1>3. c # None /\ srv.kind \in Kinds /\ srv.rows = 0
    BY <1>1, <1>2 DEF ServerOK, ServerState, Answering
  <1>4. CASE Gone(c)
    BY <1>4, DieKeeps DEF SendStatus, SendText, Reply
  <1>5. CASE ~Gone(c)
    <2>1. Abreast(c, k, up[c], down[c], srv) /\ k.at \notin {"gone", "out"} /\ ~Doomed
      BY <1>2, <1>5 DEF Gone, Connection, Doomed
    <2>2. k.at \in Sending \cup {"text"}
      BY <1>1, <1>2, <2>1 DEF Abreast, ClientState, ClientStages, Sending
    <2>3. up[c] = <<>> /\ srv.cmd = <<c, k.n>> /\ srv.cmd \in Commands
      <3>1. up[c] = <<>> /\ srv.cmd = <<c, k.n>>
        BY <1>1, <2>1, <2>2 DEF Abreast, Pending
      <3>2. k.n > 0
        BY <1>2, <2>2 DEF Connection
      <3> QED
        BY <1>2, <3>1, <3>2 DEF Commands, ClientState
    <2>4. Replies(c, k, down[c])
      BY <1>2 DEF Connection
    <2>5. CASE SendStatus
      <3> DEFINE item == [type |-> "status", cmd |-> srv.cmd, kind |-> srv.kind]
                 s == [srv EXCEPT !.at = IF srv.kind = "shutdown" THEN "persist" ELSE "text"]
                 d == Append(down[c], item)
      <3>1. srv.at = "status" /\ srv' = s /\ down' = [down EXCEPT ![c] = d] /\ db' = db
            /\ UNCHANGED <<cl, up, hung, reset, backlog, disk, ledger>>
        BY <1>5, <2>5 DEF SendStatus, Reply
      <3>2. /\ s.at = (IF srv.kind = "shutdown" THEN "persist" ELSE "text") /\ s.cur = c
            /\ s.kind = srv.kind /\ s.cmd = srv.cmd /\ s.rows = 0 /\ s \in ServerState
        BY <1>2, <1>3 DEF ServerState, ServerStages
      <3>3. /\ item \in Item /\ item.type = "status" /\ item.cmd = <<c, k.n>>
            /\ item.kind = srv.kind
        BY <1>3, <2>3 DEF Item, Parts
      <3>4. k.at = "wait" /\ down[c] = <<>> /\ srv.kind = k.kind
        BY <2>1, <2>2, <3>1 DEF Abreast, Pending, Reading
      <3>5. d \in Seq(Item) /\ Len(d) = 1 /\ d[1] = item
        BY <3>3, <3>4
      <3> HIDE DEF item, s, d, c, k
      <3>6. ServerOK(s)
        <4>1. s.cmd # None /\ s.cur # None /\ s.kind # "none"
          BY <1>3, <2>3, <3>2, CommandIsSome
        <4>2. s.at \in {"persist", "text"} /\ (s.at = "persist" <=> s.kind = "shutdown")
          BY <3>2
        <4> QED
          BY <3>2, <4>1, <4>2 DEF ServerOK, Answering
      <3>7. Replies(c, k, d)
        BY <3>3, <3>4, <3>5 DEF Replies
      <3>8. Pending(c, k, d, s) = FALSE /\ Abreast(c, k, up[c], d, s)
        BY <2>3, <3>2, <3>4, <3>5 DEF Abreast, Pending, Reading
      <3>9. Connection(c, k, up[c], d, hung, s)
        BY <1>2, <2>1, <2>3, <3>2, <3>4, <3>7, <3>8 DEF Connection, Underway
      <3>10. Serves(c, s, up[c], d)
        BY <1>2, <3>1, <3>2, <3>5, <3>6, <3>9 DEF Serves, c, k
      <3>11. ~Pending(c, k, down[c], srv)
        BY <1>1 DEF Pending, c
      <3> QED
        BY <2>1, <3>1, <3>8, <3>10, <3>11, QuietKeeps DEF k
    <2>6. CASE SendText
      <3> DEFINE item == [type |-> "text", cmd |-> srv.cmd, kind |-> srv.kind]
                 s == [srv EXCEPT !.at = "header"]
                 d == Append(down[c], item)
      <3>1. srv.at = "text" /\ srv' = s /\ down' = [down EXCEPT ![c] = d] /\ db' = db
            /\ UNCHANGED <<cl, up, hung, reset, backlog, disk, ledger>>
        BY <1>5, <2>6 DEF SendText, Reply
      <3>2. /\ s.at = "header" /\ s.cur = c
            /\ s.kind = srv.kind /\ s.cmd = srv.cmd /\ s.rows = 0 /\ s \in ServerState
        BY <1>2, <1>3 DEF ServerState, ServerStages
      <3>3. /\ item \in Item /\ item.type = "text" /\ item.cmd = <<c, k.n>>
            /\ item.kind = srv.kind
        BY <1>3, <2>3 DEF Item, Parts
      <3>4. \/ k.at = "wait" /\ Len(down[c]) = 1 /\ k.kind # "shutdown"
            \/ k.at = "text" /\ down[c] = <<>> /\ Len(down[c]) = 0
        BY <1>2, <2>1, <2>2, <3>1 DEF Abreast, Pending, Reading, ServerOK
      <3>5. /\ d \in Seq(Item) /\ Len(d) = Len(down[c]) + 1 /\ d[Len(d)] = item
            /\ \A i \in 1 .. Len(down[c]) : d[i] = down[c][i]
            /\ Len(down[c]) \in Nat /\ d # <<>>
        BY <1>2, <3>3, AppendProperties
      <3> HIDE DEF item, s, d, c, k
      <3>6. ServerOK(s)
        <4>1. s.cmd # None
          BY <2>3, <3>2, CommandIsSome
        <4>2. s.cur # None
          BY <1>3, <3>2 DEF c
        <4> QED
          BY <3>2, <4>1, <4>2 DEF ServerOK, Answering
      <3>7. Replies(c, k, d)
        <4>1. CASE k.at = "wait" /\ Len(down[c]) = 1 /\ k.kind # "shutdown"
          <5>1. Len(d) = 2 /\ d[2] = item /\ d[1] = down[c][1]
            BY <3>5, <4>1
          <5>2. \A i \in 1 .. Len(d) : i = 1 \/ i = 2
            BY <5>1
          <5>3. down[c][1].cmd = <<c, k.n>> /\ down[c][1].type = "status" /\ down[c][1].kind = k.kind
            BY <2>4, <4>1 DEF Replies
          <5> QED
            BY <3>3, <4>1, <5>1, <5>2, <5>3 DEF Replies
        <4>2. CASE k.at = "text" /\ Len(down[c]) = 0
          <5>1. Len(d) = 1 /\ d[1] = item
            BY <3>5, <4>2
          <5> QED
            BY <3>3, <4>2, <5>1 DEF Replies
        <4> QED
          BY <3>4, <4>1, <4>2
      <3>8. Pending(c, k, d, s) = FALSE /\ Abreast(c, k, up[c], d, s)
        <4>1. Pending(c, k, d, s) = FALSE
          BY <3>5 DEF Pending
        <4>2. Len(d) = IF k.at = "wait" THEN 2 ELSE 1
          BY <3>4, <3>5
        <4> QED
          BY <2>3, <3>2, <3>4, <4>1, <4>2 DEF Abreast, Sending
      <3>9. Connection(c, k, up[c], d, hung, s)
        BY <1>2, <2>1, <2>3, <3>2, <3>4, <3>7, <3>8 DEF Connection, Underway
      <3>10. Serves(c, s, up[c], d)
        BY <1>2, <3>1, <3>2, <3>5, <3>6, <3>9 DEF Serves, c, k
      <3>11. ~Pending(c, k, down[c], srv)
        BY <1>1 DEF Pending, c
      <3> QED
        BY <2>1, <3>1, <3>8, <3>10, <3>11, QuietKeeps DEF k
    <2> QED
      BY <2>5, <2>6
  <1> QED
    BY <1>4, <1>5

---------------------------------------------------------------------------
(* The steps together.                                                     *)

LEMMA InitKeeps == Init => IInv
  <1> SUFFICES ASSUME Init PROVE IInv
    OBVIOUS
  <1>1. MaxCommands \in Nat /\ Rows \in Nat /\ 0 \in 0 .. MaxCommands /\ 0 \in 0 .. Rows
    BY RowsAssumption
  <1>2. /\ \A c \in Clients : cl[c] = [at |-> "out", n |-> 0, kind |-> "none", line |-> 0]
        /\ \A c \in Clients : up[c] = <<>> /\ down[c] = <<>>
        /\ srv = [at |-> "accept", cur |-> None, cmd |-> None, kind |-> "none", rows |-> 0]
        /\ hung = {} /\ reset = {} /\ backlog = <<>> /\ db = <<>> /\ disk = <<>> /\ ledger = {}
    BY DEF Init, Idle
  <1>3. Types
    <2>1. cl \in [Clients -> ClientState]
      BY <1>1 DEF Init, ClientState, ClientStages
    <2>2. up \in [Clients -> Seq(Item)] /\ down \in [Clients -> Seq(Item)]
      BY DEF Init
    <2>3. srv \in ServerState
      BY <1>1, <1>2 DEF ServerState, ServerStages
    <2>4. ServerOK(srv)
      BY <1>2, <2>3 DEF ServerOK, Answering
    <2> QED
      BY <1>2, <2>1, <2>2, <2>4 DEF Types
  <1>4. ASSUME NEW c \in Clients
        PROVE  Connection(c, cl[c], up[c], down[c], hung, srv)
    <2>1. cl[c].at = "out" /\ up[c] = <<>> /\ down[c] = <<>> /\ c \notin hung
      BY <1>2
    <2>2. srv.cur # c /\ srv.at # "down"
      BY <1>2, ClientsAssumption
    <2>3. Len(<<>>) = 0 /\ 1 .. 0 = {}
      OBVIOUS
    <2>4. Underway(c, cl[c], up[c], srv) /\ Replies(c, cl[c], down[c])
      BY <2>1, <2>3 DEF Underway, Replies
    <2> QED
      BY <2>1, <2>2, <2>4 DEF Connection, Sending
  <1>5. Queue
    BY <1>2 DEF Queue
  <1>6. Effects
    BY <1>2 DEF Effects, Known, Whole
  <1>7. Acknowledged
    BY <1>2 DEF Acknowledged
  <1> QED
    BY <1>3, <1>4, <1>5, <1>6, <1>7 DEF IInv, Connections

LEMMA StutterKeeps ==
  ASSUME IInv, UNCHANGED vars
  PROVE  IInv'
  <1> USE DEF IInv
  <1>1. /\ cl' = cl /\ up' = up /\ down' = down /\ hung' = hung /\ reset' = reset
        /\ backlog' = backlog /\ srv' = srv /\ db' = db /\ disk' = disk /\ ledger' = ledger
    BY DEF vars
  <1>2. Types'
    BY <1>1 DEF Types
  <1>3. Connections'
    BY <1>1 DEF Connections
  <1>4. Queue'
    BY <1>1 DEF Queue
  <1>5. Effects'
    BY <1>1 DEF Effects, Doomed, Known
  <1>6. Acknowledged'
    BY <1>1 DEF Acknowledged
  <1> QED
    BY <1>2, <1>3, <1>4, <1>5, <1>6

LEMMA NextKeeps == IInv /\ [Next]_vars => IInv'
  <1> SUFFICES ASSUME IInv, [Next]_vars PROVE IInv'
    OBVIOUS
  <1>1. ASSUME NEW c \in Clients, Connect(c) PROVE IInv'
    BY <1>1, ConnectKeeps
  <1>2. ASSUME NEW c \in Clients, NEW kind \in Kinds, Type(c, kind) PROVE IInv'
    BY <1>2, TypeKeeps
  <1>3. ASSUME NEW c \in Clients, SendHeader(c) \/ SendCommand(c) \/ SendSize(c) \/ SendFile(c)
        PROVE  IInv'
    BY <1>3, SendsKeep
  <1>4. ASSUME NEW c \in Clients, RecvStatus(c) PROVE IInv'
    BY <1>4, RecvStatusKeeps
  <1>5. ASSUME NEW c \in Clients, RecvText(c) PROVE IInv'
    BY <1>5, RecvTextKeeps
  <1>6. ASSUME NEW c \in Clients, RecvEnd(c) PROVE IInv'
    BY <1>6, RecvEndKeeps
  <1>7. ASSUME NEW c \in Clients, Quit(c) \/ Kill(c) PROVE IInv'
    <2>1. cl[c].at # "out" /\ Leave(c)
      BY <1>7 DEF Quit, Kill
    <2> QED
      BY <2>1, LeaveKeeps
  <1>8. CASE Start
    BY <1>8, StartKeeps
  <1>9. CASE Accept
    BY <1>9, AcceptKeeps
  <1>10. CASE RecvHeader \/ RecvSize \/ RecvNames \/ RecvRow
    BY <1>10, RecvsKeep
  <1>11. CASE RecvCommand
    BY <1>11, RecvCommandKeeps
  <1>12. CASE EndLoad
    BY <1>12, EndLoadKeeps
  <1>13. CASE SendStatus \/ SendText
    BY <1>13, RepliesKeep
  <1>14. CASE Persist
    BY <1>14, PersistKeeps
  <1>15. CASE Crash
    BY <1>15, DieKeeps DEF Crash
  <1>16. CASE UNCHANGED vars
    BY <1>16, StutterKeeps
  <1>17. ASSUME NEW c \in Clients,
                \/ Connect(c) \/ (\E kind \in Kinds : Type(c, kind)) \/ SendHeader(c) \/ SendCommand(c)
                \/ SendSize(c) \/ SendFile(c) \/ RecvStatus(c) \/ RecvText(c) \/ RecvEnd(c)
                \/ Quit(c) \/ Kill(c)
         PROVE  IInv'
    BY <1>1, <1>2, <1>3, <1>4, <1>5, <1>6, <1>7, <1>17
  <1> QED
    BY <1>8, <1>9, <1>10, <1>11, <1>12, <1>13, <1>14, <1>15, <1>16, <1>17 DEF Next

\* All reachable states satisfy the invariant.
THEOREM Invariance == Spec => []IInv
  BY InitKeeps, NextKeeps, PTL DEF Spec

---------------------------------------------------------------------------
(* What the invariant says.                                                *)

\* The state stays in its sets: among others, a client that is sending its file
\* is at one of its lines, and the server serves somebody if and only if it is
\* neither waiting in accept nor down.
THEOREM TypeCorrect == Spec => []TypeOK
  <1>1. IInv => TypeOK
    <2> SUFFICES ASSUME IInv PROVE TypeOK
      OBVIOUS
    <2>1. ASSUME NEW c \in Clients
          PROVE  /\ cl[c].at \in {"out", "ready", "header", "command", "size", "file", "wait", "text", "gone"}
                 /\ cl[c].n \in 0 .. MaxCommands
                 /\ cl[c].kind \in Kinds \cup {"none"}
                 /\ cl[c].at = "file" => cl[c].line \in DOMAIN Stream
      <3>1. cl[c] \in ClientState
        BY DEF IInv, Types
      <3>2. cl[c].at = "file" => cl[c].line \in 1 .. Len(Stream)
        BY DEF IInv, Connections, Connection
      <3>3. DOMAIN Stream = 1 .. Len(Stream)
        BY StreamShape
      <3> QED
        BY <3>1, <3>2, <3>3 DEF ClientState, ClientStages
    <2>2. ServerOK(srv)
      BY DEF IInv, Types
    <2> QED
      BY <2>1, <2>2 DEF TypeOK, IInv, Types, ServerOK, ServerState, ServerStages, Commands
  <1> QED
    BY <1>1, Invariance, PTL

\* Client and server never lose step: what the server takes next is of the type
\* that its place in handle_client and load makes it expect, though the stream
\* does not say, and a client is only sent the replies to the command it is at,
\* the status before the text.
THEOREM EndsStayInStep == Spec => []InStep
  <1>1. IInv => InStep
    <2> SUFFICES ASSUME IInv PROVE InStep
      OBVIOUS
    <2>1. ASSUME srv.at \in {"header", "command", "size", "names"}, Received
          PROVE  Head(up[srv.cur]).type = srv.at
      <3> DEFINE c == srv.cur
                 u == up[c]
      <3>1. /\ u \in Seq(Item) /\ Connection(c, cl[c], u, down[c], hung, srv)
        BY <2>1, OfServer
      <3>2. u # <<>> /\ Underway(c, cl[c], u, srv)
        BY <2>1, <3>1 DEF Received, Connection
      <3>3. Head(u) = u[1] /\ 1 \in 1 .. Len(u)
        BY <3>1, <3>2, TailShape
      <3>4. u[1].type = Script[Taken(c, srv) + 1]
        <4>1. u[1] = [type |-> Script[Taken(c, srv) + 1], cmd |-> <<c, cl[c].n>>, kind |-> u[1].kind]
          BY <3>2, <3>3 DEF Underway
        <4> QED
          BY <4>1
      <3>5. /\ Script[1] = "header" /\ Script[2] = "command" /\ Script[3] = "size"
            /\ Script[4] = "names"
        <4>1. 1 \in 1 .. Len(Stream) /\ Stream[1] = "names"
          BY StreamShape, ScriptShape
        <4> QED
          BY <4>1, ScriptShape
      <3>6. Taken(c, srv) + 1 = (CASE srv.at = "header"  -> 1
                                   [] srv.at = "command" -> 2
                                   [] srv.at = "size"    -> 3
                                   [] srv.at = "names"   -> 4)
        BY <2>1 DEF Taken
      <3> QED
        BY <2>1, <3>3, <3>4, <3>5, <3>6
    <2>2. ASSUME NEW c \in Clients
          PROVE  /\ \A k \in DOMAIN down[c] : down[c][k].cmd = Cmd(c)
                 /\ down[c] # <<>> => cl[c].at \in {"wait", "text", "gone"}
                 /\ down[c] # <<>> /\ cl[c].at = "wait" => Head(down[c]).type = "status"
                 /\ down[c] # <<>> /\ cl[c].at = "text" => Head(down[c]).type = "text"
      <3>1. down[c] \in Seq(Item) /\ Replies(c, cl[c], down[c])
        BY DEF IInv, Types, Connections, Connection
      <3>2. DOMAIN down[c] = 1 .. Len(down[c])
        BY <3>1
      <3>3. down[c] # <<>> => Len(down[c]) \in Nat /\ Len(down[c]) >= 1
        BY <3>1, TailShape
      <3>4. down[c] # <<>> => Head(down[c]) = down[c][1]
        BY <3>1, TailShape
      <3>5. \A k \in DOMAIN down[c] : down[c][k].cmd = Cmd(c)
        BY <3>1, <3>2 DEF Replies, Cmd
      <3>6. down[c] # <<>> => cl[c].at \in {"wait", "text"}
        BY <3>1 DEF Replies
      <3>7. down[c] # <<>> => /\ cl[c].at = "wait" => down[c][1].type = "status"
                              /\ cl[c].at = "text" => down[c][1].type = "text"
        <4> SUFFICES ASSUME down[c] # <<>>
                     PROVE  /\ cl[c].at = "wait" => down[c][1].type = "status"
                            /\ cl[c].at = "text" => down[c][1].type = "text"
          OBVIOUS
        <4> DEFINE m == Len(down[c])
        <4>1. m \in Nat /\ m >= 1
          BY <3>3
        <4>2. /\ cl[c].at = "wait" => (m >= 1 => down[c][1].type = "status")
              /\ cl[c].at = "text" => m <= 1 /\ (m = 1 => down[c][1].type = "text")
          BY <3>1 DEF Replies
        <4> HIDE DEF m
        <4> QED
          BY <4>1, <4>2
      <3>8. down[c] # <<>> /\ cl[c].at = "wait" => Head(down[c]).type = "status"
        BY <3>4, <3>7
      <3>9. down[c] # <<>> /\ cl[c].at = "text" => Head(down[c]).type = "text"
        BY <3>4, <3>7
      <3> QED
        BY <3>5, <3>6, <3>8, <3>9
    <2> QED
      BY <2>1, <2>2 DEF InStep
  <1> QED
    BY <1>1, Invariance, PTL

\* What is on disk is what clients asked for: each command once, in a client's
\* order, and no part of a load; the rows of a load that was cut off, and a
\* command that was run again from the buffer of a client that is gone, never
\* outlive the server.
THEOREM SavedStaysWhole == Spec => []SavedWhole
  <1>1. IInv => SavedWhole
    BY DEF IInv, Effects, Whole, SavedWhole
  <1> QED
    BY <1>1, Invariance, PTL

\* No acknowledged effect is lost other than by an end of the server without a
\* shutdown: it is in memory while the server runs, and on disk when it does not.
THEOREM LedgerStaysKept == Spec => []LedgerKept
  <1>1. IInv => LedgerKept
    BY DEF IInv, Acknowledged, LedgerKept
  <1> QED
    BY <1>1, Invariance, PTL
=============================================================================
