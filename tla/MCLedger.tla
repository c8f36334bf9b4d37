------------------------------ MODULE MCLedger ------------------------------
(* An instance of Ledger: a database beside a Pub/Sub and an SNS topic, a   *)
(* backend whose address is not set, and a queue small enough to fill.      *)
EXTENDS Ledger

CONSTANTS r1, r2, db, topic, notify, absent

SomeRows     == {r1, r2}
FourBackends == <<db, topic, absent, notify>>
SomeKinds    == (db :> "sqlite") @@ (topic :> "pubsub") @@ (absent :> "postgres")
                  @@ (notify :> "sns")
WithSettings == {db, topic, notify}
=============================================================================
