----------------------------- MODULE RPCFetcher -----------------------------
(***************************************************************************)
(* block/fetcher/rpc.go: RPCFetcher.Fetch, fetch and IsBlockAvailable.     *)
(*                                                                         *)
(* One RPCFetcher is shared by every call of Fetch in flight (the poller   *)
(* fetches a batch of slots at a time), and its two cached tips are plain  *)
(* fields, read and written without a lock.  Each access is a step of its  *)
(* own, and a GetSlot answer is produced in one step and stored in another *)
(* so that a late answer may overwrite a newer one.                        *)
(***************************************************************************)
EXTENDS SolanaRPC

CONSTANTS
  Worker,       \* the calls of Fetch that can be in flight together
  Request,      \* the slots Fetch may be asked for
  UglyHack,     \* the hard-coded slots Fetch skips without asking
  Undecodable,  \* blocks whose conversion returns an error
  Unsupported   \* blocks whose conversion panics

ASSUME FetcherAssumption ==
  /\ Request \subseteq Nat
  /\ UglyHack \subseteq Nat
  /\ Undecodable \subseteq Produced
  /\ Unsupported \subseteq Produced

VARIABLES
  latestConfirmedSlot,
  latestFinalizedSlot,
  call          \* the state of each call of Fetch

fetcherVars == <<latestConfirmedSlot, latestFinalizedSlot, call>>
vars == <<ledgerVars, fetcherVars>>

(***************************************************************************)
(* pc is the next shared access or remote call.  slot is requestedSlot,    *)
(* client the position of WithClients, <<reply, failed>> the (value, err)  *)
(* of the last GetSlot, lastConfirm the argument lastConfirmBlockNum of    *)
(* fetch, rpcErr the JSON-RPC error errors.As finds in the errors          *)
(* WithClients has gathered (the first one), and <<out, lib>> what the     *)
(* last call returned: nothing yet, (block, LibNum), skip or an error.     *)
(***************************************************************************)
Call ==
  [pc : {"idle", "slotLoop", "askConfirmed", "gotConfirmed", "finality",
         "askFinalized", "gotFinalized", "snapshot", "getBlock", "convert"},
   slot : Nat, client : Client, reply : Nat, failed : BOOLEAN,
   lastConfirm : Nat, rpcErr : RPCError \cup {"none"},
   out : {"none", "block", "skip", "error"}, lib : Nat]

NewCall(pc, s) ==
  [pc |-> pc, slot |-> s, client |-> 1, reply |-> 0, failed |-> FALSE,
   lastConfirm |-> 0, rpcErr |-> "none", out |-> "none", lib |-> 0]

TypeOK ==
  /\ LedgerTypeOK
  /\ latestConfirmedSlot \in Nat
  /\ latestFinalizedSlot \in Nat
  /\ call \in [Worker -> Call]

(* NewRPC: a fresh fetcher, no call in flight.                             *)
NewRPC ==
  /\ latestConfirmedSlot = 0
  /\ latestFinalizedSlot = 0
  /\ call = [w \in Worker |-> NewCall("idle", 0)]

Init == LedgerInit /\ NewRPC

IsBlockAvailableOffByOne(s) == s <= latestConfirmedSlot + 1

IsBlockAvailable(s) == s <= latestConfirmedSlot

-----------------------------------------------------------------------------
Becomes(w, r) == call' = [call EXCEPT ![w] = r]

(* Fetch returns: the call's locals are gone, its results remain.          *)
Returned(s, out, lib) == [NewCall("idle", s) EXCEPT !.out = out, !.lib = lib]

Return(w, out, lib) == Becomes(w, Returned(call[w].slot, out, lib))

(* The call goes on; the reply of a finished GetSlot is no longer used.     *)
Goto(w, pc) ==
  Becomes(w, [call[w] EXCEPT !.pc = pc, !.reply = 0, !.failed = FALSE])

(* A call enters Fetch; the hard-coded range is skipped at once.           *)
Fetch(w, s) ==
  /\ call[w].pc = "idle"
  /\ Becomes(w, IF s \in UglyHack THEN Returned(s, "skip", 0)
                                   ELSE NewCall("slotLoop", s))
  /\ UNCHANGED <<ledgerVars, latestConfirmedSlot, latestFinalizedSlot>>

(* The loop condition, which is also the break at the end of its body.     *)
CheckConfirmed(w) ==
  /\ call[w].pc = "slotLoop"
  /\ Goto(w, IF latestConfirmedSlot < call[w].slot THEN "askConfirmed" ELSE "finality")
  /\ UNCHANGED <<ledgerVars, latestConfirmedSlot, latestFinalizedSlot>>

(* GetSlot: the current client answers, or fails with the value 0.         *)
GetSlot(w, from, to, tip) ==
  /\ call[w].pc = from
  /\ \/ Becomes(w, [call[w] EXCEPT !.pc = to, !.reply = tip[call[w].client]])
     \/ Becomes(w, [call[w] EXCEPT !.pc = to, !.failed = TRUE])
  /\ UNCHANGED <<ledgerVars, latestConfirmedSlot, latestFinalizedSlot>>

GetConfirmedSlot(w) == GetSlot(w, "askConfirmed", "gotConfirmed", confirmed)
GetFinalizedSlot(w) == GetSlot(w, "askFinalized", "gotFinalized", finalized)

ClientFailedNoLimit(w) ==
  Becomes(w, [call[w] EXCEPT !.pc = "slotLoop", !.client = @ + 1,
                             !.reply = 0, !.failed = FALSE])

(* The closure returned an error: WithClients runs it again with the next  *)
(* client, or gives up and Fetch returns the error.                        *)
ClientFailed(w) ==
  IF call[w].client < NumClients
  THEN Becomes(w, [call[w] EXCEPT !.pc = "slotLoop", !.client = @ + 1,
                                  !.reply = 0, !.failed = FALSE])
  ELSE Return(w, "error", 0)

(* The field is assigned whether or not GetSlot failed.                    *)
StoreConfirmed(w) ==
  /\ call[w].pc = "gotConfirmed"
  /\ latestConfirmedSlot' = call[w].reply
  /\ IF call[w].failed THEN ClientFailed(w) ELSE Goto(w, "slotLoop")
  /\ UNCHANGED <<ledgerVars, latestFinalizedSlot>>

CheckFinalized(w) ==
  /\ call[w].pc = "finality"
  /\ Goto(w, IF latestFinalizedSlot < call[w].slot THEN "askFinalized" ELSE "snapshot")
  /\ UNCHANGED <<ledgerVars, latestConfirmedSlot, latestFinalizedSlot>>

StoreFinalizedIgnoresError(w) ==
  /\ call[w].pc = "gotFinalized"
  /\ latestFinalizedSlot' = call[w].reply
  /\ Goto(w, "snapshot")
  /\ UNCHANGED <<ledgerVars, latestConfirmedSlot>>

StoreFinalized(w) ==
  /\ call[w].pc = "gotFinalized"
  /\ latestFinalizedSlot' = call[w].reply
  /\ IF call[w].failed THEN ClientFailed(w) ELSE Goto(w, "snapshot")
  /\ UNCHANGED <<ledgerVars, latestConfirmedSlot>>

(* Fetch reads the cached tip once more and passes it to fetch.            *)
CallFetch(w) ==
  /\ call[w].pc = "snapshot"
  /\ Becomes(w, [call[w] EXCEPT !.pc = "getBlock", !.client = 1,
                                !.lastConfirm = latestConfirmedSlot])
  /\ UNCHANGED <<ledgerVars, latestConfirmedSlot, latestFinalizedSlot>>

-----------------------------------------------------------------------------
SkipsOnUnavailable(err, s, lastConfirm) == err \in {"-32009", "-32007", "-32004"}
SkipsOnAnyRPCError(err, s, lastConfirm) ==
  IF err = "-32004" THEN s < lastConfirm ELSE err # "none"
SkipsOnSkippedOnly(err, s, lastConfirm) == err \in {"-32009", "-32007"}

(* The error of every client in hand, fetch skips the slot or tries again. *)
SkipsOn(err, s, lastConfirm) ==
  \/ err \in {"-32009", "-32007"}
  \/ err = "-32004" /\ s < lastConfirm

(* One client's reply to getBlock inside WithClients.                      *)
GetBlockReply(w, r) ==
  LET me == call[w]
      err == IF me.rpcErr = "none" /\ r \in RPCError THEN r ELSE me.rpcErr
  IN
  /\ me.pc = "getBlock"
  /\ \/ /\ r = "block"
        /\ Becomes(w, NewCall("convert", me.slot))
     \/ /\ r # "block" /\ me.client < NumClients
        /\ Becomes(w, [me EXCEPT !.client = @ + 1, !.rpcErr = err])
     \/ /\ r # "block" /\ me.client = NumClients
        /\ IF SkipsOn(err, me.slot, me.lastConfirm)
           THEN Return(w, "skip", 0)
           ELSE Becomes(w, [me EXCEPT !.client = 1, !.rpcErr = "none"])
  /\ UNCHANGED <<ledgerVars, latestConfirmedSlot, latestFinalizedSlot>>

GetBlockAnswer(w) ==
  \E r \in GetBlockAnswers(call[w].client, call[w].slot) : GetBlockReply(w, r)

GetBlockFault(w) == \E r \in GetBlockFaults : GetBlockReply(w, r)

-----------------------------------------------------------------------------
LibNumNoGuard(slot, finalizedSlot, parentSlot) == finalizedSlot
LibNumBefore(slot, finalizedSlot, parentSlot) ==
  IF finalizedSlot > slot THEN parentSlot ELSE finalizedSlot - 1
LibNumSwapped(slot, finalizedSlot, parentSlot) ==
  IF finalizedSlot < slot THEN parentSlot ELSE finalizedSlot

(* The LIB number given to a block.                                        *)
LibNum(slot, finalizedSlot, parentSlot) ==
  IF finalizedSlot > slot THEN parentSlot ELSE finalizedSlot

(* The conversion of a block's transactions and rewards, reduced to its    *)
(* result: an error from malformed return data, or a panic from an account *)
(* index, error name or reward type the conversion does not know.          *)
ConversionFails(s) == s \in Undecodable
ConversionPanics(s) == s \in Unsupported

(* blockFromBlockResult with the cached finalized tip read at this moment. *)
Convert(w) ==
  LET s == call[w].slot IN
  /\ call[w].pc = "convert"
  /\ ~ConversionPanics(s)
  /\ IF ConversionFails(s)
     THEN Return(w, "error", 0)
     ELSE Return(w, "block", LibNum(s, latestFinalizedSlot, ParentSlot[s]))
  /\ UNCHANGED <<ledgerVars, latestConfirmedSlot, latestFinalizedSlot>>

(* The process ends and is started again with a new fetcher.               *)
Restart ==
  /\ latestConfirmedSlot' = 0
  /\ latestFinalizedSlot' = 0
  /\ call' = [v \in Worker |-> NewCall("idle", 0)]
  /\ UNCHANGED ledgerVars

(* A panic of the conversion ends the process.                             *)
Panic(w) ==
  /\ call[w].pc = "convert"
  /\ ConversionPanics(call[w].slot)
  /\ Restart

-----------------------------------------------------------------------------
Run(w) ==
  \/ CheckConfirmed(w) \/ GetConfirmedSlot(w) \/ StoreConfirmed(w)
  \/ CheckFinalized(w) \/ GetFinalizedSlot(w) \/ StoreFinalized(w)
  \/ CallFetch(w) \/ GetBlockAnswer(w) \/ GetBlockFault(w)
  \/ Convert(w)

Step(w) == Run(w) \/ Panic(w)

Ledger(c) == (Confirm(c) \/ Finalize(c)) /\ UNCHANGED fetcherVars

Next ==
  \/ \E w \in Worker : Step(w) \/ \E s \in Request : Fetch(w, s)
  \/ \E c \in Client : Ledger(c)
  \/ Restart

Spec == Init /\ [][Next]_vars

-----------------------------------------------------------------------------
(***************************************************************************)
(* The LIB number of every block Fetch returns (rpc.go:116, 169-174) is a  *)
(* slot some endpoint has finalized, whatever the other calls did to the   *)
(* cached tip between the moment it was fetched and the moment it is read. *)
(***************************************************************************)
LibIsFinal ==
  \A w \in Worker :
    call[w].out = "block" => \E c \in Client : call[w].lib <= finalized[c]

(***************************************************************************)
(* The LIB a returned block names (rpc.go:170-174) is the block itself or  *)
(* one of its ancestors: a slot that holds a block and is not above it,    *)
(* even when a failed GetSlot has just reset the cached tip to 0.          *)
(***************************************************************************)
LibIsAncestor ==
  \A w \in Worker :
    call[w].out = "block" => call[w].lib \in Produced /\ call[w].lib <= call[w].slot

(***************************************************************************)
(* IsBlockAvailable (rpc.go:57-60) answers from a cache that any call may  *)
(* overwrite; what it calls available, some endpoint has confirmed.        *)
(***************************************************************************)
AvailableIsConfirmed ==
  \A s \in Request : IsBlockAvailable(s) => \E c \in Client : s <= confirmed[c]

(***************************************************************************)
(* fetch never reports a slot as skipped (rpc.go:140-149) while the slot   *)
(* is still at or above every endpoint's confirmed tip, so the head of the *)
(* chain is waited for and not jumped over.                                *)
(***************************************************************************)
NoSkipAboveTip ==
  \A w \in Worker :
    call[w].out = "skip" /\ call[w].slot \notin UglyHack
      => \E c \in Client : call[w].slot < confirmed[c]

(***************************************************************************)
(* With one endpoint no block is lost: Fetch reports skip (rpc.go:64-66,   *)
(* 140-149) only for slots without a block and for the hard-coded range.   *)
(* With several endpoints this is not so: the confirmed tip may come from  *)
(* one of them and the -32004 from another that lags behind it.            *)
(***************************************************************************)
NoBlockLost ==
  \A w \in Worker :
    call[w].out = "skip" => call[w].slot \notin Produced \/ call[w].slot \in UglyHack

(***************************************************************************)
(* Every call of Fetch for a slot the chain reaches returns, through the   *)
(* wait for the tip (rpc.go:71-84) and the endless retries (129-166).      *)
(***************************************************************************)
FetchReturns == \A w \in Worker : call[w].pc # "idle" ~> call[w].pc = "idle"
=============================================================================
