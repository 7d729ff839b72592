------------------------------ MODULE Approvals ------------------------------
(***************************************************************************)
(* What an approval receipt is worth: ApprovalAuthority of approvals.py as *)
(* operators over a receipt, a decision and the set of consumed            *)
(* identifiers.  A decision is a record [req, version, context]: the       *)
(* request stands for its digest and the history for the context digest.   *)
(* Only receipts an authority signed are considered, so the signature      *)
(* check holds of every receipt.                                           *)
(***************************************************************************)
EXTENDS Integers

(* ApprovalAuthority.issue, whose caller holds a pending decision.         *)
IssuedReceipt(aid, dec, now, ttl) ==
    [aid |-> aid, dec |-> dec, issued |-> now, expires |-> now + ttl]

(* Slip: the request the receipt was signed for is not compared.           *)
BoundToContext(receipt, dec) ==
    receipt.dec.version = dec.version /\ receipt.dec.context = dec.context

(* The receipt names this request, policy version and session context.     *)
Bound(receipt, dec) ==
    /\ receipt.dec.req = dec.req
    /\ receipt.dec.version = dec.version
    /\ receipt.dec.context = dec.context

(* A receipt is usable from its issue to its expiry, both included.        *)
InDate(receipt, now, maxTtl) ==
    /\ receipt.issued <= now
    /\ receipt.issued < receipt.expires
    /\ receipt.expires - receipt.issued <= maxTtl
    /\ now <= receipt.expires

(* Slip: consumed identifiers are not looked up.                           *)
AcceptsAnyUse(receipt, dec, now, maxTtl, used) ==
    Bound(receipt, dec) /\ InDate(receipt, now, maxTtl)

(* verify_and_consume raises nothing; it then adds receipt.aid to used.    *)
Accepts(receipt, dec, now, maxTtl, used) ==
    /\ Bound(receipt, dec)
    /\ InDate(receipt, now, maxTtl)
    /\ receipt.aid \notin used
=============================================================================
