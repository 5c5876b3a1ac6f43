------------------------- MODULE P2PoolClientProofs -------------------------
(***************************************************************************)
(* Proofs that a share verdict only comes from a call the spec counts as  *)
(* a success, that the worker's refusals reach the miner unchanged, and   *)
(* that a template only comes from a usable reply, for every reply the     *)
(* worker can send.  The client keeps no state between calls, so each of   *)
(* these holds after every step whatever the state before it: the         *)
(* invariants are inductive as they stand, and the work is in the lemmas   *)
(* about CallMethod(), SubmitShare() and GetBlockTemplate().               *)
(***************************************************************************)
EXTENDS P2PoolClient, TLAPS

-----------------------------------------------------------------------------
(* CallMethod() returns normally only when the request was sent, answered  *)
(* 200 with a JSON object and no string error: exactly the calls spec     *)
(* section 4.2 counts as successful (the empty object aside).             *)
LEMMA CallValueSucceeds ==
    ASSUME NEW rep, CallMethod(rep).kind = "value"
    PROVE  /\ rep.sent
           /\ SpecCallSucceeds(rep)
  BY DEF CallMethod, SpecCallSucceeds

(* What CallMethod() hands back: the reply's result, with a missing one    *)
(* read as null.                                                           *)
LEMMA CallValueIsResult ==
    ASSUME NEW rep, rep.result.type # "absent"
    PROVE  CallMethod(rep).value = rep.result
  BY DEF CallMethod

(* A verdict other than Error is reached only past CallMethod().           *)
LEMMA ShareVerdictNeedsValue ==
    ASSUME NEW rep, SubmitShare(rep).status # "Error"
    PROVE  CallMethod(rep).kind = "value"
  BY DEF SubmitShare

(* Every answer of SubmitShare() is a ShareResult.                         *)
LEMMA SubmitShareType ==
    ASSUME NEW rep
    PROVE  SubmitShare(rep) \in ShareResults
  BY DEF SubmitShare, ShareResults

(* Every answer of GetBlockTemplate() is a template or std::nullopt.       *)
LEMMA GetBlockTemplateType ==
    ASSUME NEW rep
    PROVE  GetBlockTemplate(rep) \in BlockTemplates \cup {Nullopt}
  BY DEF GetBlockTemplate, BlockTemplates, Nullopt

(* For a reply whose result is an object, CallMethod() returns exactly    *)
(* when the spec counts the call a success: an object result makes the    *)
(* body a non-empty object, and a 200 status means the request was sent.  *)
LEMMA CallValueIff ==
    ASSUME NEW rep \in ShareReplies, rep.result.type = "object"
    PROVE  CallMethod(rep).kind = "value" <=> SpecCallSucceeds(rep)
<1>1. rep.status = 200 => rep.sent
  <2> DEFINE R == Plain(ShareKeys, "absent")
  <2>1. CASE rep \in [sent : BOOLEAN, status : {0, 500}, body : {"garbage"},
                      error : {"absent"}, id : {FALSE}, result : {R}]
    BY <2>1
  <2>2. CASE rep \in [sent : {TRUE}, status : {200},
                      body : {"garbage", "array", "str"}, error : {"absent"},
                      id : {FALSE}, result : {R}]
    BY <2>2
  <2>3. CASE rep \in [sent : {TRUE}, status : {200}, body : {"object"},
                      error : {"absent", "null", "str"}, id : BOOLEAN,
                      result : ShareValues \cup {R}]
    BY <2>3
  <2>4. QED
    BY <2>1, <2>2, <2>3, Zenon DEF ShareReplies, Replies
<1>2. QED
  BY <1>1 DEF CallMethod, SpecCallSucceeds

(* SubmitShare() answers a refusal exactly for a successful call whose    *)
(* result object carries that refusal and a readable message.             *)
LEMMA RefusalOfReply ==
    ASSUME NEW rep \in ShareReplies, NEW v \in {"rejected", "stale"}
    PROVE  SubmitShare(rep).status = [rejected |-> "Rejected", stale |-> "Stale"][v]
              <=> /\ SpecCallSucceeds(rep)
                  /\ rep.result.type = "object"
                  /\ rep.result.status = v
                  /\ rep.result.message = "absent" \/ IsStr(rep.result.message)
<1>1. CASE rep.result.type = "object"
  <2>1. CallMethod(rep).value = rep.result
    BY <1>1, CallValueIsResult
  <2>2. CallMethod(rep).kind = "value" <=> SpecCallSucceeds(rep)
    BY <1>1, CallValueIff
  <2>3. QED
    BY <1>1, <2>1, <2>2 DEF SubmitShare, IsStr
<1>2. CASE rep.result.type # "object"
  <2>1. CallMethod(rep).value.type # "object"
    BY <1>2 DEF CallMethod
  <2>2. QED
    BY <1>2, <2>1 DEF SubmitShare
<1>3. QED
  BY <1>1, <1>2

-----------------------------------------------------------------------------
(* A value with a string blocktemplate_blob is one of the template objects *)
(* of TemplValues: every other value has the key absent.                   *)
LEMMA StrBlobIsObject ==
    ASSUME NEW x \in TemplValues \cup {Plain(TemplKeys, "absent")},
           IsStr(x.blocktemplate_blob)
    PROVE  x.type = "object"
<1>1. ASSUME NEW k, x = Plain(TemplKeys, k)
      PROVE  x.blocktemplate_blob = "absent"
  BY <1>1 DEF Plain, TemplKeys
<1>2. "absent" \notin {"str", "str0", "accepted", "rejected", "stale", "other"}
  OBVIOUS
<1>3. QED
  BY <1>1, <1>2 DEF TemplValues, IsStr

(* GetBlockTemplate() returns a template only for a reply the spec deems   *)
(* usable, and takes the worker's target exactly when it sent one.         *)
LEMMA TemplateUsable ==
    ASSUME NEW rep \in TemplReplies,
           GetBlockTemplate(rep) \in BlockTemplates
    PROVE  /\ SpecTemplateUsable(rep)
           /\ GetBlockTemplate(rep).target =
                 IF rep.result.target = "absent" THEN "max" ELSE "given"
<1> DEFINE v == CallMethod(rep).value
<1>1. /\ CallMethod(rep).kind = "value"
      /\ IsStr(v.blocktemplate_blob)
      /\ IsStr(v.seed_hash)
      /\ v.difficulty = "num" /\ v.height = "num"
      /\ v.target = "absent" \/ IsStr(v.target)
  <2>1. GetBlockTemplate(rep) # Nullopt
    BY DEF BlockTemplates, Nullopt
  <2>2. QED
    BY <2>1 DEF GetBlockTemplate
<1>2. SpecCallSucceeds(rep)
  BY <1>1, CallValueSucceeds
<1>3. rep.result \in TemplValues \cup {Plain(TemplKeys, "absent")}
  BY DEF TemplReplies, Replies
<1>4. rep.result.type # "absent"
  <2>1. CASE rep.result.type = "absent"
    <3>1. v = [rep.result EXCEPT !.type = "null"]
      BY <2>1 DEF CallMethod
    <3>2. v.blocktemplate_blob = rep.result.blocktemplate_blob
      BY <3>1, <1>3 DEF TemplValues, Plain, TemplKeys
    <3>3. rep.result.type = "object"
      BY <1>1, <1>3, <3>2, StrBlobIsObject
    <3>4. QED
      BY <2>1, <3>3
  <2>2. QED
    BY <2>1
<1>5. v = rep.result
  BY <1>4, CallValueIsResult
<1>6. rep.result.type = "object"
  BY <1>1, <1>3, <1>5, StrBlobIsObject
<1>7. SpecTemplateUsable(rep)
  BY <1>1, <1>2, <1>5, <1>6 DEF SpecTemplateUsable
<1>8. GetBlockTemplate(rep).target =
         IF rep.result.target = "absent" THEN "max" ELSE "given"
  BY <1>1, <1>5 DEF GetBlockTemplate
<1>9. QED
  BY <1>7, <1>8

-----------------------------------------------------------------------------
(* The invariants the client_decoding run checks, with the types.          *)
ClientInv == /\ TypeOK /\ FailedCallNeverAccepted /\ TemplateOnlyFromUsable
             /\ RefusalReported

LEMMA InitClientInv == Init => ClientInv
<1> SUFFICES ASSUME Init PROVE ClientInv
  OBVIOUS
<1>1. TypeOK
  BY DEF Init, TypeOK
<1>2. FailedCallNeverAccepted
  BY DEF Init, FailedCallNeverAccepted, NoShare
<1>3. TemplateOnlyFromUsable
  BY DEF Init, TemplateOnlyFromUsable, NoTemplate, BlockTemplates
<1>4. RefusalReported
  BY DEF Init, RefusalReported
<1>5. QED
  BY <1>1, <1>2, <1>3, <1>4 DEF ClientInv

(* Each call establishes the invariant afresh; nothing of the state before *)
(* it is needed.                                                           *)
LEMMA NextClientInv == ClientInv /\ [Next]_vars => ClientInv'
<1> SUFFICES ASSUME ClientInv, [Next]_vars PROVE ClientInv'
  OBVIOUS
<1>1. CASE SubmitShareStep
  <2> PICK rep \in ShareReplies :
          /\ shareReply' = rep
          /\ share' = SubmitShare(rep)
          /\ templReply' = NoReply(TemplKeys)
          /\ templ' = NoTemplate
    BY <1>1 DEF SubmitShareStep
  <2>1. TypeOK'
    BY SubmitShareType DEF TypeOK
  <2>2. FailedCallNeverAccepted'
    BY ShareVerdictNeedsValue, CallValueSucceeds DEF FailedCallNeverAccepted
  <2>3. TemplateOnlyFromUsable'
    BY DEF TemplateOnlyFromUsable, NoTemplate, BlockTemplates
  <2>4. RefusalReported'
    BY RefusalOfReply DEF RefusalReported
  <2>5. QED
    BY <2>1, <2>2, <2>3, <2>4 DEF ClientInv
<1>2. CASE GetBlockTemplateStep
  <2> PICK rep \in TemplReplies :
          /\ templReply' = rep
          /\ templ' = GetBlockTemplate(rep)
          /\ shareReply' = NoReply(ShareKeys)
          /\ share' = NoShare
    BY <1>2 DEF GetBlockTemplateStep
  <2>1. TypeOK'
    BY GetBlockTemplateType DEF TypeOK
  <2>2. FailedCallNeverAccepted'
    BY DEF FailedCallNeverAccepted, NoShare
  <2>3. TemplateOnlyFromUsable'
    BY TemplateUsable DEF TemplateOnlyFromUsable
  <2>4. RefusalReported'
    BY DEF RefusalReported
  <2>5. QED
    BY <2>1, <2>2, <2>3, <2>4 DEF ClientInv
<1>3. CASE UNCHANGED vars
  BY <1>3 DEF vars, ClientInv, TypeOK, FailedCallNeverAccepted,
              TemplateOnlyFromUsable, RefusalReported
<1>4. QED
  BY <1>1, <1>2, <1>3 DEF Next

-----------------------------------------------------------------------------
(* A share the worker refused (status "rejected" or "stale" in a         *)
(* successful reply) is reported to the miner as that refusal, never as    *)
(* Accepted, and no other reply yields a refusal.                          *)
THEOREM RefusalReportedInvariant == Spec => []RefusalReported
<1>1. Init => ClientInv
  BY InitClientInv
<1>2. ClientInv /\ [Next]_vars => ClientInv'
  BY NextClientInv
<1>3. QED
  BY <1>1, <1>2, PTL DEF Spec, ClientInv

(* SubmitShare() never reports Accepted, Rejected or Stale for a call that *)
(* was not sent, got no answer, an HTTP error, a body that is not a JSON   *)
(* object, or an RPC error: the miner acts only on real verdicts.          *)
THEOREM ShareVerdictOnlyOnSuccess == Spec => []FailedCallNeverAccepted
<1>1. Init => ClientInv
  BY InitClientInv
<1>2. ClientInv /\ [Next]_vars => ClientInv'
  BY NextClientInv
<1>3. QED
  BY <1>1, <1>2, PTL DEF Spec, ClientInv

(* GetBlockTemplate() returns a template only for a successful call whose *)
(* result has every field the spec requires with its type, and uses the   *)
(* maximal target only when the worker sent none.                         *)
THEOREM TemplateOnlyFromUsableReply == Spec => []TemplateOnlyFromUsable
<1>1. Init => ClientInv
  BY InitClientInv
<1>2. ClientInv /\ [Next]_vars => ClientInv'
  BY NextClientInv
<1>3. QED
  BY <1>1, <1>2, PTL DEF Spec, ClientInv

====
