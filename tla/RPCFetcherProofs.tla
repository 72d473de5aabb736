-------------------------- MODULE RPCFetcherProofs --------------------------
(***************************************************************************)
(* Proofs about RPCFetcher, for any number of endpoints, any number of     *)
(* concurrent calls, any ledger and any set of requests.                   *)
(***************************************************************************)
EXTENDS RPCFetcher, TLAPS

(***************************************************************************)
(* The inductive invariant.  Every slot number the fetcher holds, in a     *)
(* cached tip, in a GetSlot answer still in flight or in the argument of   *)
(* fetch, holds a block and is witnessed: some endpoint has reached it.    *)
(* Endpoints never go back, so a witness stays one however late the        *)
(* number is used.                                                         *)
(***************************************************************************)
Confirmed(s) == s \in Produced /\ \E c \in Client : s <= confirmed[c]
Finalized(s) == s \in Produced /\ \E c \in Client : s <= finalized[c]
Passed(s) == \E c \in Client : s < confirmed[c]

(* What holds of one call in flight, or of the last one that returned.     *)
CallInv(me) ==
  /\ me.pc = "gotConfirmed" => Confirmed(me.reply)
  /\ me.pc = "gotFinalized" => Finalized(me.reply)
  /\ me.pc \in {"askConfirmed", "askFinalized"} => me.reply = 0
  /\ me.pc = "convert" => me.slot \in Produced
  /\ Confirmed(me.lastConfirm)
  /\ me.rpcErr \in {"-32007", "-32009"} => Passed(me.slot)
  /\ me.rpcErr \in {"-32004", "-32007", "-32009"} => me.slot # 0
  /\ me.out = "skip" => me.slot # 0 \/ me.slot \in UglyHack
  /\ me.out = "block" => me.slot \in Produced /\ Finalized(me.lib) /\ me.lib <= me.slot
  /\ me.pc # "idle" \/ me.out = "block" => me.slot \notin UglyHack
  /\ me.out = "skip" /\ me.slot \notin UglyHack => Passed(me.slot)
  /\ NumClients = 1 => me.rpcErr = "none"
  /\ NumClients = 1 /\ me.out = "skip" => me.slot \notin Produced \/ me.slot \in UglyHack

IInv ==
  /\ TypeOK
  /\ Confirmed(latestConfirmedSlot)
  /\ Finalized(latestFinalizedSlot)
  /\ \A w \in Worker : CallInv(call[w])

-----------------------------------------------------------------------------
(* Slots are natural numbers and endpoint 1 exists.                        *)
LEMMA Basics ==
  /\ 1 \in Client /\ Client \subseteq Nat
  /\ Produced \subseteq Nat /\ 0 \in Produced
BY ClientsAssumption, LedgerAssumption DEF Client

(* The genesis slot, and the 0 of a failed GetSlot, are always witnessed.  *)
LEMMA ZeroWitnessed == LedgerTypeOK => Confirmed(0) /\ Finalized(0)
<1> SUFFICES ASSUME LedgerTypeOK PROVE Confirmed(0) /\ Finalized(0)
  OBVIOUS
<1>1. confirmed[1] \in Nat /\ finalized[1] \in Nat
  BY Basics DEF LedgerTypeOK
<1>2. 0 <= confirmed[1] /\ 0 <= finalized[1]
  BY <1>1
<1> QED
  BY <1>2, Basics DEF Confirmed, Finalized

(* The tips of the endpoints are natural numbers.                          *)
LEMMA TipType ==
  ASSUME LedgerTypeOK, NEW c \in Client
  PROVE  confirmed[c] \in Nat /\ finalized[c] \in Nat
BY Basics DEF LedgerTypeOK

(* Endpoints only advance, so what was witnessed stays witnessed.          *)
LEMMA LedgerMonotonic ==
  ASSUME LedgerTypeOK, NEW c \in Client, Confirm(c) \/ Finalize(c)
  PROVE  /\ LedgerTypeOK'
         /\ \A d \in Client : confirmed[d] <= confirmed'[d] /\ finalized[d] <= finalized'[d]
<1> USE DEF LedgerTypeOK
<1>1. CASE Confirm(c)
  <2>1. PICK s \in Produced : s > confirmed[c] /\ confirmed' = [confirmed EXCEPT ![c] = s]
    BY <1>1 DEF Confirm
  <2>2. s \in Nat /\ finalized' = finalized
    BY <1>1, Basics DEF Confirm
  <2>3. LedgerTypeOK'
    BY <2>1, <2>2
  <2>4. ASSUME NEW d \in Client
        PROVE  confirmed[d] <= confirmed'[d] /\ finalized[d] <= finalized'[d]
    BY <2>1, <2>2, TipType
  <2> QED
    BY <2>3, <2>4
<1>2. CASE Finalize(c)
  <2>1. PICK s \in Produced : finalized[c] < s /\ finalized' = [finalized EXCEPT ![c] = s]
    BY <1>2 DEF Finalize
  <2>2. s \in Nat /\ confirmed' = confirmed
    BY <1>2, Basics DEF Finalize
  <2>3. LedgerTypeOK'
    BY <2>1, <2>2
  <2>4. ASSUME NEW d \in Client
        PROVE  confirmed[d] <= confirmed'[d] /\ finalized[d] <= finalized'[d]
    BY <2>1, <2>2, TipType
  <2> QED
    BY <2>3, <2>4
<1> QED
  BY <1>1, <1>2

(* A step of the fetcher replaces one call by another that satisfies the   *)
(* invariant, while the endpoints stand still.                             *)
LEMMA CallStep ==
  ASSUME IInv, NEW w \in Worker, NEW r \in Call, CallInv(r), Becomes(w, r),
         UNCHANGED ledgerVars,
         latestConfirmedSlot' \in Nat, Confirmed(latestConfirmedSlot'),
         latestFinalizedSlot' \in Nat, Finalized(latestFinalizedSlot')
  PROVE  IInv'
<1>1. UNCHANGED <<confirmed, finalized>>
  BY DEF ledgerVars
<1>2. call' \in [Worker -> Call]
  BY DEF Becomes, IInv, TypeOK
<1>3. \A v \in Worker : CallInv(call'[v])
  BY DEF Becomes, IInv, TypeOK
<1>4. TypeOK'
  BY <1>1, <1>2 DEF IInv, TypeOK, LedgerTypeOK
<1>5. \A v \in Worker : CallInv(call[v])'
  BY <1>1, <1>3 DEF CallInv, Confirmed, Finalized, Passed
<1>6. Confirmed(latestConfirmedSlot)' /\ Finalized(latestFinalizedSlot)'
  BY <1>1 DEF Confirmed, Finalized
<1> QED
  BY <1>4, <1>5, <1>6 DEF IInv

(* The records a call can become are of its type, field by field.          *)
LEMMA NewCallType ==
  ASSUME NEW pc \in {"idle", "slotLoop", "convert"}, NEW s \in Nat
  PROVE  NewCall(pc, s) \in Call
BY Basics DEF NewCall, Call

LEMMA ReturnedType ==
  ASSUME NEW s \in Nat, NEW out \in {"none", "block", "skip", "error"}, NEW lib \in Nat
  PROVE  Returned(s, out, lib) \in Call
BY Basics DEF Returned, NewCall, Call

(* A call that has just begun, or that has found its block.                *)
LEMMA NewCallInv ==
  ASSUME LedgerTypeOK, NEW pc \in {"idle", "slotLoop", "convert"}, NEW s \in Nat,
         pc = "convert" => s \in Produced, pc # "idle" => s \notin UglyHack
  PROVE  CallInv(NewCall(pc, s))
BY ZeroWitnessed DEF NewCall, CallInv

(* A call that has returned, from what holds of its results.               *)
LEMMA ReturnedInv ==
  ASSUME LedgerTypeOK, NEW s \in Nat, NEW out \in {"block", "skip", "error"},
         NEW lib \in Nat,
         out = "block" => s \in Produced /\ s \notin UglyHack /\ Finalized(lib) /\ lib <= s,
         out = "skip" /\ s \notin UglyHack => Passed(s) /\ s # 0,
         NumClients = 1 /\ out = "skip" => s \notin Produced \/ s \in UglyHack
  PROVE  CallInv(Returned(s, out, lib))
BY ZeroWitnessed DEF Returned, NewCall, CallInv

(* Moving on inside Fetch drops the finished GetSlot and keeps the rest.   *)
LEMMA GotoOK ==
  ASSUME IInv, NEW w \in Worker, call[w].pc # "idle",
         NEW pc \in {"slotLoop", "askConfirmed", "finality", "askFinalized", "snapshot"},
         NEW r, \/ r = [call[w] EXCEPT !.pc = pc, !.reply = 0, !.failed = FALSE]
                \/ \E n \in Client : r = [call[w] EXCEPT !.pc = pc, !.client = n,
                                                         !.reply = 0, !.failed = FALSE]
  PROVE  r \in Call /\ CallInv(r)
<1>1. call[w] \in Call /\ CallInv(call[w])
  BY DEF IInv, TypeOK
<1>2. r \in Call
  <2>1. CASE r = [call[w] EXCEPT !.pc = pc, !.reply = 0, !.failed = FALSE]
    BY <1>1, <2>1 DEF Call
  <2>2. ASSUME NEW n \in Client,
               r = [call[w] EXCEPT !.pc = pc, !.client = n, !.reply = 0, !.failed = FALSE]
        PROVE  r \in Call
    BY <1>1, <2>2 DEF Call
  <2> QED
    BY <2>1, <2>2
<1>3. CallInv(r)
  BY <1>1 DEF Call, CallInv
<1> QED
  BY <1>2, <1>3

(* A slot number from an endpoint, or the 0 of a failure, is witnessed.    *)
LEMMA GetSlotOK ==
  ASSUME IInv, NEW w \in Worker,
         GetConfirmedSlot(w) \/ GetFinalizedSlot(w)
  PROVE  IInv'
<1> DEFINE me == call[w]
<1> USE DEF Becomes
<1>1. me \in Call /\ CallInv(me) /\ me.client \in Client /\ LedgerTypeOK
  BY DEF IInv, TypeOK, Call
<1>2. /\ confirmed[me.client] \in Nat /\ Confirmed(confirmed[me.client])
      /\ finalized[me.client] \in Nat /\ Finalized(finalized[me.client])
  BY <1>1, TipType DEF LedgerTypeOK, Confirmed, Finalized
<1>3. PICK r : /\ Becomes(w, r)
               /\ \/ me.pc = "askConfirmed" /\ r = [me EXCEPT !.pc = "gotConfirmed", !.reply = confirmed[me.client]]
                  \/ me.pc = "askConfirmed" /\ r = [me EXCEPT !.pc = "gotConfirmed", !.failed = TRUE]
                  \/ me.pc = "askFinalized" /\ r = [me EXCEPT !.pc = "gotFinalized", !.reply = finalized[me.client]]
                  \/ me.pc = "askFinalized" /\ r = [me EXCEPT !.pc = "gotFinalized", !.failed = TRUE]
  BY Zenon DEF GetConfirmedSlot, GetFinalizedSlot, GetSlot
<1>4. r \in Call
  BY <1>1, <1>2, <1>3 DEF Call
<1>5. CallInv(r)
  BY <1>1, <1>2, <1>3, ZeroWitnessed DEF Call, CallInv
<1>6. UNCHANGED <<ledgerVars, latestConfirmedSlot, latestFinalizedSlot>>
  BY DEF GetConfirmedSlot, GetFinalizedSlot, GetSlot
<1> QED
  BY <1>3, <1>4, <1>5, <1>6, CallStep DEF IInv, TypeOK

(* Storing the answer: a witnessed number replaces the cached tip, and the *)
(* call goes on, tries the next client or returns the error.               *)
LEMMA StoreOK ==
  ASSUME IInv, NEW w \in Worker, StoreConfirmed(w) \/ StoreFinalized(w)
  PROVE  IInv'
<1> DEFINE me == call[w]
<1>1. me \in Call /\ CallInv(me) /\ LedgerTypeOK
  BY DEF IInv, TypeOK
<1>2. me.slot \in Nat /\ me.reply \in Nat /\ me.client \in Client
  BY <1>1 DEF Call
<1>3. me.client < NumClients => me.client + 1 \in Client
  BY <1>2, ClientsAssumption DEF Client
<1>4. PICK r : /\ Becomes(w, r)
               /\ \/ r = [me EXCEPT !.pc = "slotLoop", !.reply = 0, !.failed = FALSE]
                  \/ r = [me EXCEPT !.pc = "snapshot", !.reply = 0, !.failed = FALSE]
                  \/ me.client < NumClients
                     /\ r = [me EXCEPT !.pc = "slotLoop", !.client = me.client + 1,
                                       !.reply = 0, !.failed = FALSE]
                  \/ r = Returned(me.slot, "error", 0)
  BY Zenon DEF StoreConfirmed, StoreFinalized, ClientFailed, Return, Goto
<1>5. r \in Call /\ CallInv(r)
  <2> me.pc # "idle"
    BY DEF StoreConfirmed, StoreFinalized
  <2>1. CASE r = Returned(me.slot, "error", 0)
    BY <1>1, <1>2, <2>1, ReturnedType, ReturnedInv
  <2>2. CASE r = [me EXCEPT !.pc = "slotLoop", !.reply = 0, !.failed = FALSE]
    BY <2>2, GotoOK
  <2>3. CASE r = [me EXCEPT !.pc = "snapshot", !.reply = 0, !.failed = FALSE]
    BY <2>3, GotoOK
  <2>4. CASE me.client < NumClients
             /\ r = [me EXCEPT !.pc = "slotLoop", !.client = me.client + 1,
                               !.reply = 0, !.failed = FALSE]
    BY <1>3, <2>4, GotoOK
  <2> QED
    BY <1>4, <2>1, <2>2, <2>3, <2>4
<1>6. UNCHANGED ledgerVars
  BY DEF StoreConfirmed, StoreFinalized
<1>7. CASE StoreConfirmed(w)
  <2>1. /\ latestConfirmedSlot' = me.reply /\ Confirmed(me.reply)
        /\ latestFinalizedSlot' = latestFinalizedSlot
    BY <1>1, <1>7 DEF StoreConfirmed, CallInv
  <2> QED
    BY <1>2, <1>4, <1>5, <1>6, <2>1, CallStep DEF IInv, TypeOK
<1>8. CASE StoreFinalized(w)
  <2>1. /\ latestFinalizedSlot' = me.reply /\ Finalized(me.reply)
        /\ latestConfirmedSlot' = latestConfirmedSlot
    BY <1>1, <1>8 DEF StoreFinalized, CallInv
  <2> QED
    BY <1>2, <1>4, <1>5, <1>6, <2>1, CallStep DEF IInv, TypeOK
<1> QED
  BY <1>7, <1>8

(* The other steps of Fetch before getBlock leave the cached tips alone.   *)
LEMMA BeginOK ==
  ASSUME IInv, NEW w \in Worker, NEW s \in Request, Fetch(w, s)
  PROVE  IInv'
<1>1. s \in Nat /\ LedgerTypeOK
  BY FetcherAssumption DEF IInv, TypeOK
<1>2. PICK r : /\ Becomes(w, r)
               /\ \/ s \in UglyHack /\ r = Returned(s, "skip", 0)
                  \/ s \notin UglyHack /\ r = NewCall("slotLoop", s)
  BY Zenon DEF Fetch
<1>3. r \in Call
  BY <1>1, <1>2, ReturnedType, NewCallType
<1>4. CallInv(r)
  BY <1>1, <1>2, ReturnedInv, NewCallInv
<1>5. UNCHANGED <<ledgerVars, latestConfirmedSlot, latestFinalizedSlot>>
  BY DEF Fetch
<1> QED
  BY <1>2, <1>3, <1>4, <1>5, CallStep DEF IInv, TypeOK

LEMMA CheckOK ==
  ASSUME IInv, NEW w \in Worker, CheckConfirmed(w) \/ CheckFinalized(w)
  PROVE  IInv'
<1>1. PICK pc \in {"askConfirmed", "finality", "askFinalized", "snapshot"} :
        call[w].pc # "idle" /\ Goto(w, pc)
  BY DEF CheckConfirmed, CheckFinalized
<1> DEFINE r == [call[w] EXCEPT !.pc = pc, !.reply = 0, !.failed = FALSE]
<1>2. Becomes(w, r)
  BY <1>1 DEF Goto
<1>3. r \in Call /\ CallInv(r)
  BY <1>1, GotoOK
<1>4. UNCHANGED <<ledgerVars, latestConfirmedSlot, latestFinalizedSlot>>
  BY DEF CheckConfirmed, CheckFinalized
<1> HIDE DEF r
<1> QED
  BY <1>2, <1>3, <1>4, CallStep DEF IInv, TypeOK

LEMMA CallFetchOK ==
  ASSUME IInv, NEW w \in Worker, CallFetch(w)
  PROVE  IInv'
<1> DEFINE r == [call[w] EXCEPT !.pc = "getBlock", !.client = 1,
                                !.lastConfirm = latestConfirmedSlot]
<1>1. Becomes(w, r) /\ UNCHANGED <<ledgerVars, latestConfirmedSlot, latestFinalizedSlot>>
  BY DEF CallFetch
<1>2. call[w] \in Call /\ CallInv(call[w]) /\ 1 \in Client /\ call[w].pc # "idle"
  BY Basics DEF IInv, TypeOK, CallFetch
<1>3. latestConfirmedSlot \in Nat /\ Confirmed(latestConfirmedSlot)
  BY DEF IInv, TypeOK
<1>4. r \in Call
  BY <1>2, <1>3 DEF Call
<1>5. CallInv(r)
  BY <1>2, <1>3 DEF Call, CallInv
<1> HIDE DEF r
<1> QED
  BY <1>1, <1>4, <1>5, CallStep DEF IInv, TypeOK

(***************************************************************************)
(* getBlock.  A slot is reported as skipped on -32007 or -32009, which an  *)
(* endpoint only answers below its tip, or on -32004 below the snapshot of *)
(* the confirmed tip.  With one endpoint that endpoint has both seen the   *)
(* tip and denied the slot, so the slot holds no block.                    *)
(***************************************************************************)
LEMMA GetBlockOK ==
  ASSUME IInv, NEW w \in Worker,
         NEW a \in {"block", "transport"} \cup RPCError,
         a \in GetBlockAnswers(call[w].client, call[w].slot) \cup GetBlockFaults,
         GetBlockReply(w, a)
  PROVE  IInv'
<1> DEFINE me == call[w]
           err == IF me.rpcErr = "none" /\ a \in RPCError THEN a ELSE me.rpcErr
<1>1. me \in Call /\ CallInv(me) /\ LedgerTypeOK
  BY DEF IInv, TypeOK
<1>2. /\ me.slot \in Nat /\ me.client \in Client /\ me.lastConfirm \in Nat
      /\ me.rpcErr \in RPCError \cup {"none"}
  BY <1>1 DEF Call
<1>3. confirmed[me.client] \in Nat /\ confirmed[me.client] \in Produced
  BY <1>1, <1>2, TipType DEF LedgerTypeOK
<1>4. me.slot \notin UglyHack /\ (a = "block" => me.slot \in Produced)
  BY <1>1, <1>2, <1>3 DEF GetBlockAnswers, GetBlockFaults, GetBlockReply, CallInv
<1>5. a \in {"-32007", "-32009"} => Passed(me.slot) /\ me.slot \notin Produced
  <2>1. a \in {"-32007", "-32009"} =>
          me.slot \notin Produced /\ me.slot <= confirmed[me.client]
    BY <1>2, <1>3 DEF GetBlockAnswers, GetBlockFaults
  <2>2. a \in {"-32007", "-32009"} => me.slot < confirmed[me.client]
    BY <1>2, <1>3, <2>1
  <2> QED
    BY <1>2, <2>1, <2>2 DEF Passed
<1>6. a = "-32004" => me.slot > confirmed[me.client] \/ me.slot \notin Produced
  BY <1>2, <1>3 DEF GetBlockAnswers, GetBlockFaults
<1>7. me.slot < me.lastConfirm => Passed(me.slot)
  <2> SUFFICES ASSUME me.slot < me.lastConfirm PROVE Passed(me.slot)
    OBVIOUS
  <2>1. PICK c \in Client : me.lastConfirm <= confirmed[c]
    BY <1>1 DEF CallInv, Confirmed
  <2>2. me.slot < confirmed[c]
    BY <1>1, <1>2, <2>1, TipType
  <2> QED
    BY <2>2 DEF Passed
<1>8. err \in RPCError \cup {"none"}
  BY <1>2
<1>9. /\ err \in {"-32007", "-32009"} => Passed(me.slot)
      /\ err \in {"-32004", "-32007", "-32009"} => me.slot # 0
  <2>1. a \in {"-32004", "-32007", "-32009"} => me.slot # 0
    BY <1>2, <1>3, <1>5, <1>6, Basics
  <2> QED
    BY <1>1, <1>5, <2>1 DEF CallInv
<1>10. NumClients = 1 /\ SkipsOn(err, me.slot, me.lastConfirm) => me.slot \notin Produced
  <2> SUFFICES ASSUME NumClients = 1, SkipsOn(err, me.slot, me.lastConfirm)
               PROVE  me.slot \notin Produced
    OBVIOUS
  <2>1. err = a \/ err = "none"
    BY <1>1 DEF CallInv
  <2>2. CASE a \in {"-32007", "-32009"}
    BY <1>5, <2>2
  <2>3. CASE a = "-32004" /\ me.slot < me.lastConfirm
    <3>1. \A c \in Client : c = 1
      BY DEF Client
    <3>2. me.lastConfirm <= confirmed[me.client]
      BY <1>1, <1>2, <3>1 DEF CallInv, Confirmed
    <3> QED
      BY <1>2, <1>3, <1>6, <2>3, <3>2
  <2> QED
    BY <2>1, <2>2, <2>3 DEF SkipsOn
<1> HIDE DEF err
<1>11. UNCHANGED <<ledgerVars, latestConfirmedSlot, latestFinalizedSlot>>
  BY DEF GetBlockReply
<1>12. PICK r : /\ Becomes(w, r)
                /\ \/ a = "block" /\ r = NewCall("convert", me.slot)
                   \/ me.client < NumClients
                      /\ r = [me EXCEPT !.client = me.client + 1, !.rpcErr = err]
                   \/ SkipsOn(err, me.slot, me.lastConfirm) /\ r = Returned(me.slot, "skip", 0)
                   \/ r = [me EXCEPT !.client = 1, !.rpcErr = "none"]
  BY Zenon DEF GetBlockReply, Return, err
<1>13. r \in Call /\ CallInv(r)
  <2>1. CASE a = "block" /\ r = NewCall("convert", me.slot)
    BY <1>1, <1>2, <1>4, <2>1, NewCallType, NewCallInv
  <2>2. CASE me.client < NumClients
             /\ r = [me EXCEPT !.client = me.client + 1, !.rpcErr = err]
    <3>1. me.client + 1 \in Client /\ NumClients # 1
      BY <1>2, <2>2, ClientsAssumption DEF Client
    <3>2. r \in Call
      BY <1>1, <1>8, <2>2, <3>1 DEF Call
    <3>3. CallInv(r)
      BY <1>1, <1>9, <2>2, <3>1 DEF Call, CallInv
    <3> QED
      BY <3>2, <3>3
  <2>3. CASE SkipsOn(err, me.slot, me.lastConfirm) /\ r = Returned(me.slot, "skip", 0)
    <3>1. Passed(me.slot) /\ me.slot # 0
      BY <1>7, <1>9, <2>3 DEF SkipsOn
    <3> QED
      BY <1>1, <1>2, <1>10, <2>3, <3>1, ReturnedType, ReturnedInv
  <2>4. CASE r = [me EXCEPT !.client = 1, !.rpcErr = "none"]
    <3>1. 1 \in Client
      BY Basics
    <3>2. r \in Call
      BY <1>1, <2>4, <3>1 DEF Call
    <3>3. CallInv(r)
      BY <1>1, <2>4 DEF Call, CallInv
    <3> QED
      BY <3>2, <3>3
  <2> QED
    BY <1>12, <2>1, <2>2, <2>3, <2>4
<1> QED
  BY <1>11, <1>12, <1>13, CallStep DEF IInv, TypeOK

(***************************************************************************)
(* The LIB number of a block is the cached finalized tip when that tip is  *)
(* not above the block, and the parent slot, which the tip has passed,     *)
(* otherwise: in both cases a finalized slot at or below the block.        *)
(***************************************************************************)
LEMMA LibNumOK ==
  ASSUME LedgerTypeOK, NEW s \in Produced, NEW f \in Nat, Finalized(f)
  PROVE  LET lib == LibNum(s, f, ParentSlot[s])
         IN  lib \in Nat /\ Finalized(lib) /\ lib <= s
<1> DEFINE p == ParentSlot[s]
<1>1. s \in Nat /\ p \in Produced /\ p \in Nat
  BY LedgerAssumption
<1>2. p <= s
  <2>1. CASE s = 0
    BY <2>1, LedgerAssumption
  <2>2. CASE s # 0
    BY <1>1, <2>2, LedgerAssumption
  <2> QED
    BY <2>1, <2>2
<1>3. PICK c \in Client : f <= finalized[c]
  BY DEF Finalized
<1>4. f > s => Finalized(p)
  <2>1. f > s => p <= finalized[c]
    BY <1>1, <1>2, <1>3, TipType
  <2> QED
    BY <1>1, <2>1 DEF Finalized
<1> QED
  BY <1>1, <1>2, <1>4 DEF LibNum

LEMMA ConvertOK ==
  ASSUME IInv, NEW w \in Worker, Convert(w)
  PROVE  IInv'
<1> DEFINE me == call[w]
           lib == LibNum(me.slot, latestFinalizedSlot, ParentSlot[me.slot])
<1>1. me \in Call /\ CallInv(me) /\ LedgerTypeOK
  BY DEF IInv, TypeOK
<1>2. me.slot \in Nat /\ me.slot \in Produced /\ me.slot \notin UglyHack
  BY <1>1 DEF Convert, Call, CallInv
<1>3. lib \in Nat /\ Finalized(lib) /\ lib <= me.slot
  BY <1>1, <1>2, LibNumOK DEF IInv, TypeOK
<1> HIDE DEF lib
<1>4. PICK r : /\ Becomes(w, r)
               /\ \/ r = Returned(me.slot, "error", 0)
                  \/ r = Returned(me.slot, "block", lib)
  BY Zenon DEF Convert, Return, lib
<1>5. r \in Call
  BY <1>2, <1>3, <1>4, ReturnedType
<1>6. CallInv(r)
  BY <1>1, <1>2, <1>3, <1>4, ReturnedInv
<1>7. UNCHANGED <<ledgerVars, latestConfirmedSlot, latestFinalizedSlot>>
  BY DEF Convert
<1> QED
  BY <1>4, <1>5, <1>6, <1>7, CallStep DEF IInv, TypeOK

(* A fresh fetcher, at the start or after the process ended.               *)
LEMMA FreshOK == LedgerTypeOK /\ NewRPC => IInv
<1> SUFFICES ASSUME LedgerTypeOK, NewRPC PROVE IInv
  OBVIOUS
<1>1. \A w \in Worker : call[w] = NewCall("idle", 0)
  BY DEF NewRPC
<1>2. NewCall("idle", 0) \in Call /\ CallInv(NewCall("idle", 0))
  BY NewCallType, NewCallInv
<1>3. call \in [Worker -> Call]
  BY <1>2 DEF NewRPC
<1> QED
  BY <1>1, <1>2, <1>3, ZeroWitnessed DEF NewRPC, IInv, TypeOK

LEMMA RestartOK ==
  ASSUME IInv, Restart
  PROVE  IInv'
<1>1. LedgerTypeOK' /\ NewRPC'
  BY DEF Restart, IInv, TypeOK, LedgerTypeOK, ledgerVars, NewRPC
<1> QED
  BY <1>1, FreshOK, PTL

LEMMA LedgerOK ==
  ASSUME IInv, NEW c \in Client, Ledger(c)
  PROVE  IInv'
<1>1. LedgerTypeOK
  BY DEF IInv, TypeOK
<1>2. Confirm(c) \/ Finalize(c)
  BY DEF Ledger
<1>3. UNCHANGED <<latestConfirmedSlot, latestFinalizedSlot, call>>
  BY DEF Ledger, fetcherVars
<1>4. LedgerTypeOK'
  BY <1>1, <1>2, LedgerMonotonic
<1>5. \A d \in Client : confirmed[d] <= confirmed'[d] /\ finalized[d] <= finalized'[d]
  BY <1>1, <1>2, LedgerMonotonic
<1>6. \A d \in Client : /\ confirmed[d] \in Nat /\ finalized[d] \in Nat
                        /\ confirmed'[d] \in Nat /\ finalized'[d] \in Nat
  BY <1>1, <1>4, Basics DEF LedgerTypeOK
<1>7. \A s \in Nat : Confirmed(s) => Confirmed(s)'
  BY <1>5, <1>6 DEF Confirmed
<1>8. \A s \in Nat : Finalized(s) => Finalized(s)'
  BY <1>5, <1>6 DEF Finalized
<1>9. \A s \in Nat : Passed(s) => Passed(s)'
  BY <1>5, <1>6 DEF Passed
<1>10. ASSUME NEW w \in Worker PROVE CallInv(call[w])'
  <2>1. call[w] \in Call /\ CallInv(call[w])
    BY DEF IInv, TypeOK
  <2>2. /\ call[w].slot \in Nat /\ call[w].reply \in Nat
        /\ call[w].lastConfirm \in Nat /\ call[w].lib \in Nat
    BY <2>1 DEF Call
  <2> QED
    BY <1>3, <1>7, <1>8, <1>9, <2>1, <2>2 DEF CallInv
<1> QED
  BY <1>3, <1>4, <1>7, <1>8, <1>10 DEF IInv, TypeOK

(***************************************************************************)
(* The invariant holds of a fresh fetcher and survives every step of every *)
(* call and of every endpoint.                                             *)
(***************************************************************************)
THEOREM Invariance == Spec => []IInv
<1>1. Init => IInv
  BY Basics, FreshOK DEF Init, LedgerInit, LedgerTypeOK
<1>2. IInv /\ [Next]_vars => IInv'
  <2> SUFFICES ASSUME IInv, [Next]_vars PROVE IInv'
    OBVIOUS
  <2>1. ASSUME NEW w \in Worker, NEW s \in Request, Fetch(w, s) PROVE IInv'
    BY <2>1, BeginOK
  <2>2. ASSUME NEW w \in Worker, Step(w) PROVE IInv'
    <3>1. CASE CheckConfirmed(w) \/ CheckFinalized(w)
      BY <3>1, CheckOK
    <3>2. CASE GetConfirmedSlot(w) \/ GetFinalizedSlot(w)
      BY <3>2, GetSlotOK
    <3>3. CASE StoreConfirmed(w) \/ StoreFinalized(w)
      BY <3>3, StoreOK
    <3>4. CASE CallFetch(w)
      BY <3>4, CallFetchOK
    <3>5. CASE GetBlockAnswer(w) \/ GetBlockFault(w)
      <4>1. PICK a \in GetBlockAnswers(call[w].client, call[w].slot) \cup GetBlockFaults :
              GetBlockReply(w, a)
        BY <3>5 DEF GetBlockAnswer, GetBlockFault
      <4>2. a \in {"block", "transport"} \cup RPCError
        BY DEF GetBlockAnswers, GetBlockFaults, RPCError
      <4> QED
        BY <4>1, <4>2, GetBlockOK
    <3>6. CASE Convert(w)
      BY <3>6, ConvertOK
    <3>7. CASE Panic(w)
      BY <3>7, RestartOK DEF Panic
    <3> QED
      BY <2>2, <3>1, <3>2, <3>3, <3>4, <3>5, <3>6, <3>7 DEF Step, Run
  <2>3. ASSUME NEW c \in Client, Ledger(c) PROVE IInv'
    BY <2>3, LedgerOK
  <2>4. CASE Restart
    BY <2>4, RestartOK
  <2>5. CASE UNCHANGED vars
    BY <2>5 DEF vars, ledgerVars, fetcherVars, IInv, TypeOK, LedgerTypeOK,
                CallInv, Confirmed, Finalized, Passed
  <2> QED
    BY <2>1, <2>2, <2>3, <2>4, <2>5 DEF Next
<1> QED
  BY <1>1, <1>2, PTL DEF Spec

-----------------------------------------------------------------------------
(* The fetcher's fields and locals stay of their types (rpc.go:37-45).     *)
THEOREM TypeCorrect == Spec => []TypeOK
<1>1. IInv => TypeOK
  BY DEF IInv
<1> QED
  BY <1>1, Invariance, PTL

(* The LIB of every block Fetch returns is finalized on some endpoint, for *)
(* any number of concurrent calls sharing the cache (rpc.go:86-92, 116).   *)
THEOREM LibFinal == Spec => []LibIsFinal
<1>1. IInv => LibIsFinal
  BY DEF IInv, CallInv, Finalized, LibIsFinal
<1> QED
  BY <1>1, Invariance, PTL

(* The LIB of every block Fetch returns is that block or one of its        *)
(* ancestors (rpc.go:169-174).                                             *)
THEOREM LibAncestor == Spec => []LibIsAncestor
<1>1. IInv => LibIsAncestor
  BY DEF IInv, CallInv, Finalized, LibIsAncestor
<1> QED
  BY <1>1, Invariance, PTL

(* IsBlockAvailable never promises a slot no endpoint has confirmed        *)
(* (rpc.go:57-60), although any call may overwrite its cache.              *)
THEOREM AvailableConfirmed == Spec => []AvailableIsConfirmed
<1>1. IInv => AvailableIsConfirmed
  <2> SUFFICES ASSUME IInv, NEW s \in Request, s <= latestConfirmedSlot
               PROVE  \E c \in Client : s <= confirmed[c]
    BY DEF AvailableIsConfirmed, IsBlockAvailable
  <2>1. PICK c \in Client : latestConfirmedSlot <= confirmed[c]
    BY DEF IInv, Confirmed
  <2>2. s \in Nat /\ latestConfirmedSlot \in Nat /\ confirmed[c] \in Nat
    BY FetcherAssumption, TipType DEF IInv, TypeOK
  <2> QED
    BY <2>1, <2>2
<1> QED
  BY <1>1, Invariance, PTL

(* The head of the chain is never reported as skipped (rpc.go:137-153).    *)
THEOREM HeadNotSkipped == Spec => []NoSkipAboveTip
<1>1. IInv => NoSkipAboveTip
  BY DEF IInv, CallInv, Passed, NoSkipAboveTip
<1> QED
  BY <1>1, Invariance, PTL

(* With a single endpoint Fetch skips no slot that holds a block           *)
(* (rpc.go:137-153), whatever the concurrent calls do.                     *)
THEOREM OneEndpointLosesNothing ==
  ASSUME NumClients = 1
  PROVE  Spec => []NoBlockLost
<1>1. IInv => NoBlockLost
  BY DEF IInv, CallInv, NoBlockLost
<1> QED
  BY <1>1, Invariance, PTL
=============================================================================
