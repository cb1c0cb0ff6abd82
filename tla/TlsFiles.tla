------------------------------ MODULE TlsFiles ------------------------------
(***************************************************************************)
(* ensure_tls_certs() and generate_self_signed_cert() of tftpos/tls.py:    *)
(* the certificate and the key, two files without a lock.                  *)
(*                                                                         *)
(* A generation writes the key first and the certificate after it, each    *)
(* file truncated (OpenKey, OpenCert) before it is written.  A pair that   *)
(* is there is used as it is, whatever is in it.  Paths the user gives are *)
(* only tested for, and are left out.                                      *)
(***************************************************************************)
EXTENDS Naturals

CONSTANTS
    Threads,        \* callers
    None,           \* no call
    Absent,         \* a file that is not there
    Torn,           \* a file that was truncated and not written
    MaxGenerations  \* bound: pairs generated

TlsAssumption ==
    /\ MaxGenerations \in Nat
    /\ Absent # Torn
    /\ Absent \notin Nat /\ Torn \notin Nat /\ None \notin Nat

VARIABLES
    pc,       \* what each thread does next
    call,     \* the generation it writes (0 before it has one), or None
    key,      \* key.pem: of a generation, Torn, or Absent
    cert,     \* cert.pem
    made,     \* generations so far
    (* History variables: *)
    crossing, \* threads whose generation has met another, or a crash
    trust     \* how the files were last written: by one generation alone
              \* ("one"), or not

vars == <<pc, call, key, cert, made, crossing, trust>>

Generations == 1..MaxGenerations
Writing == {"write key", "open cert", "write cert"}
Writers == {t \in Threads : pc[t] \in Writing}

TypeOK ==
    /\ pc \in [Threads -> {"idle", "ensure", "open key", "returned"} \cup Writing]
    /\ call \in [Threads -> {None} \cup 0..MaxGenerations]
    /\ \A t \in Threads : pc[t] = "idle" <=> call[t] = None
    /\ {key, cert} \subseteq {Absent, Torn} \cup Generations
    /\ made \in 0..MaxGenerations
    /\ crossing \subseteq Threads
    /\ trust \in BOOLEAN

Init ==
    /\ pc = [t \in Threads |-> "idle"]
    /\ call = [t \in Threads |-> None]
    /\ key = Absent /\ cert = Absent
    /\ made = 0
    /\ crossing = {}
    /\ trust = TRUE

-----------------------------------------------------------------------------
(* A thread goes from one step of its call to another. *)
Go(t, from, to) ==
    /\ pc[t] = from
    /\ pc' = [pc EXCEPT ![t] = to]

(* ensure_tls_certs(), or a renewal: generate_self_signed_cert() called by *)
(* hand.                                                                   *)
Call(t) ==
    /\ Go(t, "idle", "ensure") \/ Go(t, "idle", "open key")
    /\ call' = [call EXCEPT ![t] = 0]
    /\ UNCHANGED <<key, cert, made, crossing, trust>>

(* A slip: one file of the two is enough. *)
ReuseEither(t) ==
    /\ Go(t, "ensure", "returned")
    /\ cert # Absent \/ key # Absent
    /\ UNCHANGED <<call, key, cert, made, crossing, trust>>

(* Both files are there. *)
Reuse(t) ==
    /\ Go(t, "ensure", "returned")
    /\ cert # Absent /\ key # Absent
    /\ UNCHANGED <<call, key, cert, made, crossing, trust>>

Generate(t) ==
    /\ Go(t, "ensure", "open key")
    /\ cert = Absent \/ key = Absent
    /\ UNCHANGED <<call, key, cert, made, crossing, trust>>

(* A new key and certificate; key_path.write_bytes(), first half ... *)
OpenKey(t) ==
    /\ Go(t, "open key", "write key")
    /\ made < MaxGenerations
    /\ made' = made + 1
    /\ call' = [call EXCEPT ![t] = made']
    /\ key' = Torn
    /\ crossing' = IF Writers = {} THEN crossing ELSE crossing \cup Writers \cup {t}
    /\ UNCHANGED <<cert, trust>>

(* ... and second half. *)
WriteKey(t) ==
    /\ Go(t, "write key", "open cert")
    /\ key' = call[t]
    /\ UNCHANGED <<call, cert, made, crossing, trust>>

(* The key's mode is set; cert_path.write_bytes(), first half ... *)
OpenCert(t) ==
    /\ Go(t, "open cert", "write cert")
    /\ cert' = Torn
    /\ UNCHANGED <<call, key, made, crossing, trust>>

(* ... and second half. *)
WriteCert(t) ==
    /\ Go(t, "write cert", "returned")
    /\ cert' = call[t]
    /\ trust' = (t \notin crossing)
    /\ crossing' = crossing \ {t}
    /\ UNCHANGED <<call, key, made>>

Return(t) ==
    /\ Go(t, "returned", "idle")
    /\ call' = [call EXCEPT ![t] = None]
    /\ UNCHANGED <<key, cert, made, crossing, trust>>

(* What a generation that is cut short leaves is used again only beside a  *)
(* certificate.                                                            *)
CutShort == IF Writers = {} THEN trust ELSE trust /\ cert = Absent

(* A directory, a file or its mode cannot be made, or a write fails. *)
Fails(t) ==
    /\ \E step \in Writing \cup {"open key"} : Go(t, step, "idle")
    /\ call' = [call EXCEPT ![t] = None]
    /\ crossing' = crossing \ {t}
    /\ trust' = IF t \in Writers THEN CutShort ELSE trust
    /\ UNCHANGED <<key, cert, made>>

(* The process dies and is started again. *)
Crash ==
    /\ \E t \in Threads : pc[t] # "idle"
    /\ pc' = [t \in Threads |-> "idle"]
    /\ call' = [t \in Threads |-> None]
    /\ crossing' = {}
    /\ trust' = CutShort
    /\ UNCHANGED <<key, cert, made>>

(* Somebody removes a file, to have the pair made again. *)
Remove ==
    /\ \A t \in Threads : pc[t] = "idle"
    /\ \/ key' = Absent /\ UNCHANGED cert
       \/ cert' = Absent /\ UNCHANGED key
    /\ UNCHANGED <<pc, call, made, crossing, trust>>

Next ==
    \/ \E t \in Threads :
         \/ Call(t) \/ Reuse(t) \/ Generate(t)
         \/ OpenKey(t) \/ WriteKey(t) \/ OpenCert(t) \/ WriteCert(t)
         \/ Return(t) \/ Fails(t)
    \/ Crash
    \/ Remove

-----------------------------------------------------------------------------
(* The files a call returns are a whole key and its own certificate,       *)
(* wherever earlier calls have failed or the process has died; unless      *)
(* generations overlapped, or one was cut short beside a certificate: its  *)
(* own, half written, or that of the pair it was to replace                *)
(* (tls.py:114-126, 184-188).                                              *)
PairMatches ==
    \A t \in Threads : pc[t] = "returned" /\ Writers = {} /\ trust =>
        key = cert /\ key \in Generations

=============================================================================
