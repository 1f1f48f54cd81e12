----------------------------- MODULE MCCheckin -----------------------------
(* Values for Checkin's constants. *)
EXTENDS Checkin, TLC

CONSTANTS t1, t2, e1, e2, a, b, r1, r2, r3

Interchangeable == Permutations(Requests)

tap(e, t, ch, ctr) ==
  [emp |-> e, tag |-> t, channel |-> ch, ctr |-> ctr, genuine |-> TRUE,
   ip |-> TRUE, gps |-> "none", declared |-> NoTime, want |-> "none"]

Shipped == [baseline |-> Baseline, tenant |-> <<>>]
OneSet == {Shipped}

(* One tenant, one plaque, one person. *)
OneTenantTag == [t \in Tags |-> a]
OneTenantEmp == [e \in Employees |-> a]

(* One person at a QR code: taps now, and taps declared for another time.  *)
PersonInputs ==
  {tap(e1, t1, "qr", 0), [tap(e1, t1, "qr", 0) EXCEPT !.declared = 0]}

(* Two tenants, a plaque each; the people tap each other's.                *)
SiteTag == (t1 :> a @@ t2 :> b)
GuestEmp == (e1 :> a @@ e2 :> b)
HoldingInputs ==
  {tap(e1, t2, "nfc", 1), tap(e2, t2, "nfc", 1)}
=============================================================================
