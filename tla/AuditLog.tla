------------------------------ MODULE AuditLog ------------------------------
(***************************************************************************)
(* The audit log of tftpos/audit.py: loggers with a ring buffer each, and  *)
(* the one that get_audit_logger() hands out.                              *)
(*                                                                         *)
(* A call of log() makes its entry, with the time, before it takes the     *)
(* lock of the buffer; get_audit_logger() tests for a logger and makes one *)
(* in two steps, without a lock.  The lines that go to the handlers of the *)
(* logging module are not read back by the program and are left out, and   *)
(* so are switched-off logs, which record nothing.                         *)
(***************************************************************************)
EXTENDS Naturals, Sequences, FiniteSets, Functions

CONSTANTS
    Threads,     \* callers
    Kinds,       \* event types
    None,        \* no call, no logger, no filter
    BufferSize,  \* buffer_size of the configuration
    MaxEntries,  \* bound: entries made
    MaxLoggers   \* bound: loggers made

(* An entry is its time and its type; after is a history variable: the     *)
(* entries whose log() had returned when it was made.                      *)
Entry == [time : 1..MaxEntries, kind : Kinds, after : SUBSET (1..MaxEntries)]
Logged == [entry : Entry, logger : 1..MaxLoggers]

(* What a call may ask for: an event to record, or the entries of a type   *)
(* (None for all), at most limit of them.                                  *)
Requests ==
    [op : {"log"}, kind : Kinds, limit : {0}]
    \cup [op : {"query"}, kind : Kinds \cup {None}, limit : 1..BufferSize]

(* A call, what it has found and made, and for the properties what log()   *)
(* had returned when a query began.                                        *)
Calls ==
    [request : Requests, saw : {None} \cup 1..MaxLoggers, logger : {None} \cup 1..MaxLoggers,
     entry : Entry \cup {None}, before : SUBSET Logged, answer : Seq(Entry)]

AuditAssumption ==
    /\ IsFiniteSet(Threads)
    /\ BufferSize \in Nat \ {0}
    /\ {MaxEntries, MaxLoggers} \subseteq Nat
    /\ Cardinality(Threads) <= MaxLoggers
    /\ None \notin Kinds \cup Entry \cup Calls \cup Nat

VARIABLES
    pc,       \* what each thread does next
    call,     \* its call, or None
    current,  \* _audit_logger
    buffers,  \* the buffers of the loggers made so far
    made,     \* entries made so far: their times
    (* History variables: *)
    returned, \* entries whose log() has returned, and their loggers
    replaced  \* loggers that init_audit() replaced, or a second maker of one

vars == <<pc, call, current, buffers, made, returned, replaced>>

TypeOK ==
    /\ pc \in [Threads -> {"idle", "create", "use", "append", "query", "answered"}]
    /\ call \in [Threads -> Calls \cup {None}]
    /\ \A t \in Threads : pc[t] = "idle" <=> call[t] = None
    /\ current \in {None} \cup 1..Len(buffers)
    /\ Len(buffers) <= MaxLoggers
    /\ \A b \in Range(buffers) :
         Len(b) <= BufferSize /\ \A i \in 1..Len(b) : b[i] \in Entry
    /\ made \in 0..MaxEntries
    /\ returned \subseteq [entry : Entry, logger : 1..Len(buffers)]
    /\ replaced \subseteq 1..Len(buffers)

Init ==
    /\ pc = [t \in Threads |-> "idle"]
    /\ call = [t \in Threads |-> None]
    /\ current = None
    /\ buffers = <<>>
    /\ made = 0
    /\ returned = {}
    /\ replaced = {}

-----------------------------------------------------------------------------
Go(t, step) == pc' = [pc EXCEPT ![t] = step]

Return(t) ==
    /\ Go(t, "idle")
    /\ call' = [call EXCEPT ![t] = None]

Recording ==
    {t \in Threads : /\ pc[t] # "idle"
                     /\ call[t].request.op = "log"
                     /\ call[t].entry = None}
Creating == {t \in Threads : pc[t] = "create"}

(* get_audit_logger(): "if _audit_logger is None". *)
GetAuditLogger(t, r) ==
    /\ pc[t] = "idle"
    /\ r.op = "log" => made + Cardinality(Recording) < MaxEntries
    /\ call' = [call EXCEPT ![t] =
         [request |-> r, saw |-> current, logger |-> None, entry |-> None,
          before |-> {}, answer |-> <<>>]]
    /\ Go(t, IF current = None THEN "create" ELSE "use")
    /\ UNCHANGED <<current, buffers, made, returned, replaced>>

(* A new AuditLogger, which becomes the global one. *)
NewLogger ==
    /\ buffers' = Append(buffers, <<>>)
    /\ current' = Len(buffers')

(* ... because there was none when this thread looked. *)
Create(t) ==
    /\ pc[t] = "create"
    /\ NewLogger
    /\ replaced' = IF call[t].saw # current THEN replaced \cup {current} ELSE replaced
    /\ Go(t, "use")
    /\ UNCHANGED <<call, made, returned>>

(* init_audit() *)
InitAudit ==
    /\ Len(buffers) + Cardinality(Creating) < MaxLoggers
    /\ NewLogger
    /\ replaced' = IF current = None THEN replaced ELSE replaced \cup {current}
    /\ UNCHANGED <<pc, call, made, returned>>

(* "return _audit_logger", and the call of its log() or query(). *)
Use(t) ==
    /\ pc[t] = "use"
    /\ \/ /\ call[t].request.op = "log"
          /\ call' = [call EXCEPT ![t].logger = current, ![t].saw = None]
          /\ Go(t, "append")
       \/ /\ call[t].request.op = "query"
          /\ call' = [call EXCEPT ![t].logger = current, ![t].saw = None,
                                  ![t].before = returned]
          /\ Go(t, "query")
    /\ UNCHANGED <<current, buffers, made, returned, replaced>>

(* log(): _make_entry(), and the line to the handlers. *)
MakeEntry(t) ==
    /\ pc[t] = "append"
    /\ call[t].entry = None
    /\ made' = made + 1
    /\ call' = [call EXCEPT ![t].entry =
         [time |-> made', kind |-> call[t].request.kind,
          after |-> {x.entry.time : x \in returned}]]
    /\ UNCHANGED <<pc, current, buffers, returned, replaced>>

(* A slip: the deque has no maxlen. *)
AppendedUnbounded(buffer, e) == Append(buffer, e)

(* What append() leaves of a deque with a maxlen. *)
Appended(buffer, e) ==
    LET longer == Append(buffer, e)
    IN  IF Len(longer) > BufferSize THEN Tail(longer) ELSE longer

(* The entry goes into the buffer, under the lock, and log() returns. *)
AppendEntry(t) ==
    /\ pc[t] = "append"
    /\ call[t].entry # None
    /\ buffers' = [buffers EXCEPT ![call[t].logger] = Appended(@, call[t].entry)]
    /\ returned' = returned \cup {[entry |-> call[t].entry, logger |-> call[t].logger]}
    /\ Return(t)
    /\ UNCHANGED <<current, made, replaced>>

(* Details that cannot be written as JSON: log() raises. *)
LogRaises(t) ==
    /\ pc[t] = "append"
    /\ call[t].entry = None
    /\ Return(t)
    /\ UNCHANGED <<current, buffers, made, returned, replaced>>

Matches(r, e) == r.kind = None \/ e.kind = r.kind

(* The entries query() finds, and how many of them it returns. *)
Found(r, buffer) == {i \in 1..Len(buffer) : Matches(r, buffer[i])}
Returned(r, found) ==
    IF Cardinality(found) < r.limit THEN Cardinality(found) ELSE r.limit

(* The place of one of them, the newest being the first. *)
Place(i, found) == Cardinality({j \in found : j >= i})

(* A slip: the oldest entries are kept within the limit. *)
AnswerOldest(r, buffer) ==
    LET found == Found(r, buffer)
        left == Cardinality(found) - Returned(r, found)
    IN  [n \in 1..Returned(r, found) |-> buffer[CHOOSE i \in found : Place(i, found) = left + n]]

(* The filter, the reversal and the limit of query(). *)
Answer(r, buffer) ==
    LET found == Found(r, buffer)
    IN  [n \in 1..Returned(r, found) |-> buffer[CHOOSE i \in found : Place(i, found) = n]]

(* query(): the buffer is copied under the lock. *)
Query(t) ==
    /\ pc[t] = "query"
    /\ call' = [call EXCEPT ![t].answer = Answer(call[t].request, buffers[call[t].logger])]
    /\ Go(t, "answered")
    /\ UNCHANGED <<current, buffers, made, returned, replaced>>

QueryReturns(t) ==
    /\ pc[t] = "answered"
    /\ Return(t)
    /\ UNCHANGED <<current, buffers, made, returned, replaced>>

Step(t) ==
    \/ \E r \in Requests : GetAuditLogger(t, r)
    \/ Create(t) \/ Use(t)
    \/ MakeEntry(t) \/ AppendEntry(t) \/ LogRaises(t)
    \/ Query(t) \/ QueryReturns(t)

Next == (\E t \in Threads : Step(t)) \/ InitAudit

-----------------------------------------------------------------------------
(* An answer has the newest entries first, as far as calls of log() came   *)
(* one after the other; and an event whose log() had returned before       *)
(* query() began is in it, unless as many as were asked for are not older, *)
(* or a whole buffer of entries that are not older has pushed it out, or   *)
(* its logger was replaced: by init_audit(), or by a thread that found no  *)
(* logger at the same time (audit.py:315-338, 361-363).                    *)
Older(e, f) == e.time \in f.after

AnswerIsRight ==
    \A t \in Threads : pc[t] = "answered" =>
        LET a == call[t].answer
            buffer == buffers[call[t].logger]
        IN  /\ \A i, j \in 1..Len(a) : i < j => ~Older(a[i], a[j])
            /\ \A x \in call[t].before : Matches(call[t].request, x.entry) =>
                 \/ x.entry \in Range(a)
                 \/ /\ Len(a) = call[t].request.limit
                    /\ \A e \in Range(a) : ~Older(e, x.entry)
                 \/ /\ Len(buffer) = BufferSize
                    /\ \A e \in Range(buffer) : ~Older(e, x.entry)
                 \/ x.logger \in replaced

=============================================================================
