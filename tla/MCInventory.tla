----------------------------- MODULE MCInventory -----------------------------
(* An instance of Inventory small enough for TLC. *)
EXTENDS Inventory, TLC

CONSTANTS d1, r1, s1, s2, p1, api, cron, ann, ben

\* A page for SIM cards; s2 is not there yet.
MCKindOf == d1 :> "DEVICE" @@ r1 :> "ROUTER" @@ s1 :> "SIM" @@ s2 :> "SIM"
MCShows == p1 :> "SIM"
MCFirst == d1 :> DeviceRow([serialNumber |-> "n1"]) @@ r1 :> RouterRow([imei |-> "n1"])
           @@ s1 :> SimRow([iccid |-> "n1", packageType |-> "old"])

\* One filter, which finds the card that is there.
MCHits == "n1" :> {"n1"}

Of(op, a, dto, with) == [op |-> op, of |-> a, dto |-> dto, with |-> with]

\* Two other clients create, recharge, transfer and report.
MCMay ==
  api :> {Of("create", s2, [iccid |-> "n2", packageType |-> "gold"], ann),
          Of("recharge", s1, <<>>, "gold"), Of("transfer", d1, <<>>, ann)}
  @@ cron :> {Of("transfer", d1, <<>>, ben), Of("return", d1, <<>>, ben),
              Of("direct", d1, <<>>, "gold"), Of("telemetry", r1, <<>>, "gold")}
=============================================================================
