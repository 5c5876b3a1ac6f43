---------------------------- MODULE P2PoolClient ----------------------------
(***************************************************************************)
(* P2PoolClient (src/src/p2pool_client.{h,cpp}): one JSON-RPC POST per    *)
(* call, the classification of its outcome in CallMethod(), and the        *)
(* decoding of the two results the miner uses, in SubmitShare() and        *)
(* GetBlockTemplate().                                                     *)
(*                                                                         *)
(* The client keeps no state between calls: each call is one step that    *)
(* takes the worker's reply as its input and records the answer.  A JSON   *)
(* value is abstracted to a record whose "type" is its kind ("null",       *)
(* "true", "false", "num0" or "num" for a zero or non-zero number, "str0"  *)
(* or "str" for an empty or non-empty string, "array", "object") and whose *)
(* other fields are the object keys the decoder reads, "absent" for a key  *)
(* the object lacks (and for every key of a non-object).  An HTTP reply is *)
(* the status HTTPReply ends with and the shape of its body.               *)
(***************************************************************************)
EXTENDS Naturals

VARIABLES
    shareReply,   \* the reply to the last submit_share call (NoReply before)
    share,        \* SubmitShare()'s ShareResult (NoShare before)
    templReply,   \* the reply to the last get_share_template call
    templ         \* GetBlockTemplate()'s answer (NoTemplate before)

vars == <<shareReply, share, templReply, templ>>

ScalarKinds == {"null", "true", "false", "num0", "num", "str0", "str", "array"}

(* A kind with every key absent; "absent" itself stands for a missing key. *)
Plain(keys, k) == [f \in {"type"} \cup keys |-> IF f = "type" THEN k ELSE "absent"]

(* submit_share results: the object keys status and message.               *)
ShareKeys == {"status", "message"}
ShareValues ==
    {Plain(ShareKeys, k) : k \in ScalarKinds}
    \cup [type : {"object"},
          status : {"absent", "accepted", "rejected", "stale", "other", "num"},
          message : {"absent", "str", "str0", "num"}]

(* get_share_template results: the keys of the template object.            *)
TemplKeys == {"blocktemplate_blob", "header", "seed_hash", "difficulty",
              "height", "target"}
TemplValues ==
    {Plain(TemplKeys, k) : k \in {"null", "true", "str"}}
    \cup [type : {"object"},
          blocktemplate_blob : {"absent", "str", "num"},
          header : {"absent", "str"},
          seed_hash : {"absent", "str"},
          difficulty : {"absent", "num", "str"},
          height : {"absent", "num"},
          target : {"absent", "str", "num"}]

(* Whether evhttp_make_request() took the request (sent), and what        *)
(* event_base_dispatch() then leaves in HTTPReply: status 0 when the       *)
(* connection failed or timed out (http_request_done got req == NULL), the *)
(* response code otherwise.                                                *)
(* A body is "garbage" (UniValue::read() fails), a non-object JSON value,  *)
(* or a reply object with its error key, whether it has other keys (id),   *)
(* and its result.                                                         *)
Replies(Values, keys) ==
    [sent : BOOLEAN, status : {0, 500}, body : {"garbage"},
     error : {"absent"}, id : {FALSE}, result : {Plain(keys, "absent")}]
    \cup [sent : {TRUE}, status : {200}, body : {"garbage", "array", "str"},
          error : {"absent"}, id : {FALSE}, result : {Plain(keys, "absent")}]
    \cup [sent : {TRUE}, status : {200}, body : {"object"},
          error : {"absent", "null", "str"}, id : BOOLEAN,
          result : Values \cup {Plain(keys, "absent")}]

(* The state before the first call of a kind.                              *)
NoReply(keys) ==
    [sent |-> FALSE, status |-> 0, body |-> "none", error |-> "absent",
     id |-> FALSE, result |-> Plain(keys, "absent")]

ShareReplies == Replies(ShareValues, ShareKeys)

TemplReplies == Replies(TemplValues, TemplKeys)

ShareResults ==
    [status : {"Accepted", "Rejected", "Stale", "Error"},
     message : {"given", "default", "submitted", "error"}]

NoShare == [status |-> "none", message |-> "none"]

(* std::optional<BlockTemplate>: a template, or std::nullopt.              *)
BlockTemplates == [header_hex : {"blob", "header"}, target : {"given", "max"}]

Nullopt == [header_hex |-> "nullopt", target |-> "nullopt"]

NoTemplate == [header_hex |-> "none", target |-> "none"]

-----------------------------------------------------------------------------
(* CallMethod() that reads the result even when the reply carries an error. *)
CallMethodNoErrorCheck(rep) ==
    [kind |-> IF ~rep.sent THEN "send"
              ELSE IF rep.status = 0 THEN "connect"
              ELSE IF rep.status # 200 THEN "http"
              ELSE IF rep.body = "garbage" THEN "parse"
              ELSE IF rep.body # "object" THEN "notobject"
              ELSE IF rep.error = "absent" /\ rep.result.type = "absent" /\ ~rep.id
                   THEN "empty"
              ELSE "value",
     value |-> IF rep.result.type = "absent"
               THEN [rep.result EXCEPT !.type = "null"]
               ELSE rep.result]

(* CallMethod(): each failure throws std::runtime_error, in this order:    *)
(* the request was not sent, no connection (status 0), a status other than *)
(* 200, a body UniValue cannot read, a body that is not an object (get_obj *)
(* throws), an empty object, a non-null "error".  Otherwise                *)
(* find_value(reply, "result"), which is null when the key is missing.     *)
(* Only kind = "value" returns; value is meaningful only then.             *)
CallMethod(rep) ==
    [kind |-> IF ~rep.sent THEN "send"
              ELSE IF rep.status = 0 THEN "connect"
              ELSE IF rep.status # 200 THEN "http"
              ELSE IF rep.body = "garbage" THEN "parse"
              ELSE IF rep.body # "object" THEN "notobject"
              ELSE IF rep.error = "absent" /\ rep.result.type = "absent" /\ ~rep.id
                   THEN "empty"
              ELSE IF rep.error = "str" THEN "rpc"
              ELSE "value",
     value |-> IF rep.result.type = "absent"
               THEN [rep.result EXCEPT !.type = "null"]
               ELSE rep.result]

(* get_str() succeeds only on a string.                                    *)
IsStr(x) == x \in {"str", "str0", "accepted", "rejected", "stale", "other"}

-----------------------------------------------------------------------------
(* SubmitShare() without the "stale" branch: a stale share falls through *)
(* to the lenient default.                                                 *)
SubmitShareNoStale(rep) ==
    LET call == CallMethod(rep)
        v == call.value
        msg == IF v.message = "str" THEN "given" ELSE "default"
    IN IF call.kind # "value" THEN [status |-> "Error", message |-> "error"]
       ELSE IF v.type = "object" /\ v.status # "absent" /\
              (~IsStr(v.status) \/ (v.message # "absent" /\ ~IsStr(v.message)))
              THEN [status |-> "Error", message |-> "error"]
       ELSE IF v.type = "object" /\ v.status = "accepted"
              THEN [status |-> "Accepted", message |-> msg]
       ELSE IF v.type = "object" /\ v.status = "rejected"
              THEN [status |-> "Rejected", message |-> msg]
       ELSE IF v.type = "object" /\ v.status \in {"stale", "other"}
              THEN [status |-> "Accepted", message |-> "submitted"]
       ELSE IF v.type = "object" \/ v.type = "true"
              THEN [status |-> "Accepted", message |-> "default"]
       ELSE [status |-> "Accepted", message |-> "submitted"]

(* SubmitShare(): CallMethod("submit_share"), then the decoding.  A result *)
(* object with a status reads it, and the message if present, with         *)
(* get_str() (which throws on another type, and the catch returns Error);  *)
(* "accepted", "rejected" and "stale" map to their status with the message *)
(* or the default one when it is empty, any other status to Accepted       *)
(* "Share submitted".  An object without status is Accepted, and so is     *)
(* the boolean true; every other result is Accepted "Share submitted".     *)
SubmitShare(rep) ==
    LET call == CallMethod(rep)
        v == call.value
        msg == IF v.message = "str" THEN "given" ELSE "default"
    IN IF call.kind # "value" THEN [status |-> "Error", message |-> "error"]
       ELSE IF v.type = "object" /\ v.status # "absent" /\
              (~IsStr(v.status) \/ (v.message # "absent" /\ ~IsStr(v.message)))
              THEN [status |-> "Error", message |-> "error"]
       ELSE IF v.type = "object" /\ v.status = "accepted"
              THEN [status |-> "Accepted", message |-> msg]
       ELSE IF v.type = "object" /\ v.status = "rejected"
              THEN [status |-> "Rejected", message |-> msg]
       ELSE IF v.type = "object" /\ v.status = "stale"
              THEN [status |-> "Stale", message |-> msg]
       ELSE IF v.type = "object" /\ v.status = "other"
              THEN [status |-> "Accepted", message |-> "submitted"]
       ELSE IF v.type = "object" \/ v.type = "true"
              THEN [status |-> "Accepted", message |-> "default"]
       ELSE [status |-> "Accepted", message |-> "submitted"]

(* GetBlockTemplate() that always uses the maximal target.                 *)
GetBlockTemplateDefaultTarget(rep) ==
    LET call == CallMethod(rep)
        v == call.value
    IN IF /\ call.kind = "value"
          /\ IsStr(v.blocktemplate_blob)
          /\ IsStr(v.seed_hash)
          /\ v.difficulty = "num" /\ v.height = "num"
       THEN [header_hex |-> "blob", target |-> "max"]
       ELSE Nullopt

(* GetBlockTemplate(): CallMethod("get_share_template"), then              *)
(* find_value(result, "blocktemplate_blob").get_str() unconditionally      *)
(* (find_value() of a missing key, or on a non-object, is null, and        *)
(* get_str() throws), which makes the "header" fallback unreachable; then  *)
(* seed_hash with get_str(), difficulty and height with get_int64(), and   *)
(* target with get_str() when it exists, else the maximal target.  Any     *)
(* throw is caught and gives std::nullopt.                                 *)
GetBlockTemplate(rep) ==
    LET call == CallMethod(rep)
        v == call.value
    IN IF /\ call.kind = "value"
          /\ IsStr(v.blocktemplate_blob)
          /\ IsStr(v.seed_hash)
          /\ v.difficulty = "num" /\ v.height = "num"
          /\ v.target = "absent" \/ IsStr(v.target)
       THEN [header_hex |-> "blob",
             target |-> IF v.target = "absent" THEN "max" ELSE "given"]
       ELSE Nullopt

-----------------------------------------------------------------------------
Init ==
    /\ shareReply = NoReply(ShareKeys) /\ share = NoShare
    /\ templReply = NoReply(TemplKeys) /\ templ = NoTemplate

(* The miner calls SubmitShare() and the worker answers with any reply.    *)
(* No call depends on an earlier one, so the state keeps only the last     *)
(* call and its answer.                                                    *)
SubmitShareStep ==
    \E rep \in ShareReplies :
        /\ shareReply' = rep
        /\ share' = SubmitShare(rep)
        /\ templReply' = NoReply(TemplKeys)
        /\ templ' = NoTemplate

(* The miner calls GetBlockTemplate() and the worker answers.              *)
GetBlockTemplateStep ==
    \E rep \in TemplReplies :
        /\ templReply' = rep
        /\ templ' = GetBlockTemplate(rep)
        /\ shareReply' = NoReply(ShareKeys)
        /\ share' = NoShare

Next == SubmitShareStep \/ GetBlockTemplateStep

Spec == Init /\ [][Next]_vars

-----------------------------------------------------------------------------
(* The contract of spec section 4.2, written independently of the code:    *)
(* no answer is ConnectFailure, a status other than 200 HTTPStatusFailure, *)
(* a 200 body that is not a JSON object ParseFailure, a non-null error     *)
(* RPCError; otherwise the result field verbatim (null when missing).      *)
SpecCallSucceeds(rep) ==
    rep.status = 200 /\ rep.body = "object" /\ rep.error # "str"

(* Spec section 6: the template is usable when its blob is a string under  *)
(* one of the two key names (blocktemplate_blob, or header when that one   *)
(* is missing), the seed hash a string, difficulty and height numbers, and *)
(* the target, if present, a string.                                       *)
SpecTemplateUsable(rep) ==
    /\ SpecCallSucceeds(rep)
    /\ rep.result.type = "object"
    /\ \/ IsStr(rep.result.blocktemplate_blob)
       \/ rep.result.blocktemplate_blob = "absent" /\ IsStr(rep.result.header)
    /\ IsStr(rep.result.seed_hash)
    /\ rep.result.difficulty = "num" /\ rep.result.height = "num"
    /\ rep.result.target = "absent" \/ IsStr(rep.result.target)

TypeOK ==
    /\ shareReply \in ShareReplies \cup {NoReply(ShareKeys)}
    /\ share \in ShareResults \cup {NoShare}
    /\ templReply \in TemplReplies \cup {NoReply(TemplKeys)}
    /\ templ \in BlockTemplates \cup {Nullopt, NoTemplate}

(* A share verdict (Accepted, Rejected or Stale) comes only from a call    *)
(* the spec counts as a success: SubmitShare() must turn a refused send, a *)
(* lost connection, an HTTP error, an unparsable body and an RPC error     *)
(* into Error, never into a verdict the miner would act on.                *)
FailedCallNeverAccepted ==
    share.status \notin {"none", "Error"}
        => SpecCallSucceeds(shareReply)

(* GetBlockTemplate() returns a template only for a reply the spec deems   *)
(* usable, with the worker's target when it sent one and the maximal       *)
(* target only when it did not.                                            *)
TemplateOnlyFromUsable ==
    templ \in BlockTemplates =>
        /\ SpecTemplateUsable(templReply)
        /\ templ.target = IF templReply.result.target = "absent"
                          THEN "max" ELSE "given"

(* A refusal by the worker reaches the miner as such: SubmitShare()       *)
(* answers Rejected (Stale) exactly when a successful call's result object *)
(* has status "rejected" ("stale") and a string message or none.  A share  *)
(* the worker refused is never counted as Accepted, nor as the other       *)
(* refusal, and no other reply produces a refusal.                         *)
RefusalReported ==
    LET r == shareReply.result
    IN share # NoShare =>
         \A v \in {"rejected", "stale"} :
            share.status = [rejected |-> "Rejected", stale |-> "Stale"][v]
              <=> /\ SpecCallSucceeds(shareReply)
                  /\ r.type = "object"
                  /\ r.status = v
                  /\ r.message = "absent" \/ IsStr(r.message)

(* Spec section 6: a boolean submit_share result means accepted only when *)
(* it is true; section 9 keeps the lenient "accepted" default only for     *)
(* results that are neither boolean nor object.  SubmitShare()'s last      *)
(* branch also takes false.                                                *)
FalseNeverAccepted ==
    share.status = "Accepted" => shareReply.result.type # "false"

(* Spec section 6: a usable template, with its blob under either key       *)
(* name, is never turned into std::nullopt.                                *)
HeaderTemplateUsable ==
    templ = Nullopt => ~SpecTemplateUsable(templReply)

====
