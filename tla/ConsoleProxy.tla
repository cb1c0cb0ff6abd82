---------------------------- MODULE ConsoleProxy ----------------------------
(***************************************************************************)
(* ConsoleProxy of tftpos/console.py: the one connection to the VNC or     *)
(* SPICE server that the tasks of an event loop open, use and close.       *)
(* SerialConsoleProxy repeats its four methods.                            *)
(*                                                                         *)
(* A task runs alone until it awaits: while the connection is opened       *)
(* (Connect), while it goes down (Close), and while bytes are written out  *)
(* or awaited.  What is read and written is left out.                      *)
(***************************************************************************)
EXTENDS Naturals

CONSTANTS
    Threads,        \* tasks
    None,           \* no connection, no call
    MaxConnections  \* bound: connections opened

ConsoleAssumption == MaxConnections \in Nat /\ None \notin Nat

VARIABLES
    pc,      \* what each task does next
    call,    \* the connection its call works on, or None
    writer,  \* self._writer: the connection it belongs to
    reader,  \* self._reader
    link,    \* the connections so far: "open", or "closed" by the proxy
    crossed  \* history variable: connections that were open when connect()
             \* opened another, or were opened while close() waited

vars == <<pc, call, writer, reader, link, crossed>>

Connections == 1..MaxConnections
Opened == {c \in Connections : link[c] = "open"}
Fresh == {c \in Connections : link[c] = "unused"}
Closing == {t \in Threads : pc[t] = "closing"}

TypeOK ==
    /\ pc \in [Threads -> {"idle", "connecting", "closing", "draining", "reading"}]
    /\ call \in [Threads -> Connections \cup {None}]
    /\ {writer, reader} \subseteq Connections \cup {None}
    /\ link \in [Connections -> {"unused", "open", "closed"}]
    /\ crossed \subseteq Connections

Init ==
    /\ pc = [t \in Threads |-> "idle"]
    /\ call = [t \in Threads |-> None]
    /\ writer = None
    /\ reader = None
    /\ link = [c \in Connections |-> "unused"]
    /\ crossed = {}

-----------------------------------------------------------------------------
(* The call of a task waits, on connection c. *)
Await(t, step, c) ==
    /\ pc[t] = "idle"
    /\ pc' = [pc EXCEPT ![t] = step]
    /\ call' = [call EXCEPT ![t] = c]

Return(t, step) ==
    /\ pc[t] = step
    /\ pc' = [pc EXCEPT ![t] = "idle"]
    /\ call' = [call EXCEPT ![t] = None]

Connect(t) ==
    /\ Await(t, "connecting", None)
    /\ UNCHANGED <<writer, reader, link, crossed>>

(* open_connection() answers: a new pair takes the place of any other. *)
Connected(t, c) ==
    /\ Return(t, "connecting")
    /\ c \in Fresh
    /\ link' = [link EXCEPT ![c] = "open"]
    /\ writer' = c /\ reader' = c
    /\ crossed' = crossed \cup Opened \cup (IF Closing = {} THEN {} ELSE {c})

(* The server cannot be reached, or the task is cancelled. *)
ConnectFails(t) ==
    /\ Return(t, "connecting")
    /\ UNCHANGED <<writer, reader, link, crossed>>

(* A slip: the writer is forgotten, and its socket left open. *)
CloseForgetting(t) ==
    /\ writer # None
    /\ Await(t, "closing", writer)
    /\ UNCHANGED <<writer, reader, link, crossed>>

(* close() of an open proxy: the socket is closed, the task waits. *)
Close(t) ==
    /\ writer # None
    /\ Await(t, "closing", writer)
    /\ link' = [link EXCEPT ![writer] = "closed"]
    /\ UNCHANGED <<writer, reader, crossed>>

(* wait_closed() ends, with an error or without: the proxy has none. *)
CloseReturns(t) ==
    /\ Return(t, "closing")
    /\ writer' = None /\ reader' = None
    /\ UNCHANGED <<link, crossed>>

(* send_to_backend(): the bytes are buffered, and drain() is awaited. *)
Send(t) ==
    /\ writer # None
    /\ Await(t, "draining", writer)
    /\ UNCHANGED <<writer, reader, link, crossed>>

(* receive_from_backend() awaits bytes. *)
Receive(t) ==
    /\ reader # None
    /\ Await(t, "reading", reader)
    /\ UNCHANGED <<writer, reader, link, crossed>>

(* Either returns, raises, or the task is cancelled, in close() too. *)
Ends(t) ==
    /\ \E step \in {"draining", "reading", "closing"} : Return(t, step)
    /\ UNCHANGED <<writer, reader, link, crossed>>

Next ==
    \E t \in Threads :
        \/ Connect(t) \/ ConnectFails(t) \/ Close(t) \/ CloseReturns(t)
        \/ Send(t) \/ Receive(t) \/ Ends(t)
        \/ \E c \in Connections : Connected(t, c)

-----------------------------------------------------------------------------
(* The proxy reads from the connection it writes to, and every connection  *)
(* still open is that one: none is left that close() cannot reach, with    *)
(* any number of tasks that use and close the proxy at once; unless        *)
(* connect() was called on an open proxy, or ended while close() waited    *)
(* (console.py:104, 115-122).                                              *)
ConnectionIsOwned ==
    /\ reader = writer
    /\ \A c \in Opened : c = writer \/ c \in crossed

=============================================================================
