------------------------------ MODULE KeyValue ------------------------------
(***************************************************************************)
(* What a tablet promises its clients: a map from keys to values.  The     *)
(* words are those of src/src/client.h ("Get value by the key", "Insert    *)
(* key/value pair", "return false if there is already the same key",       *)
(* "Delete item indexed by the key").  A tablet may stop for good, and     *)
(* what it held is then gone: nothing in the system reads it again.        *)
(***************************************************************************)
EXTENDS Naturals

CONSTANTS Keys, Values, NoValue

VARIABLES
  store,   \* the map
  reply,   \* the answer to the last request
  alive    \* the tablet serves requests

kvars == <<store, reply, alive>>

Without(key) == [k \in DOMAIN store \ {key} |-> store[k]]
With(key, val) ==
  [k \in DOMAIN store \cup {key} |-> IF k = key THEN val ELSE store[k]]
Answer(status, val) == reply' = [status |-> status, val |-> val]

Init ==
  /\ store = [k \in {} |-> NoValue]
  /\ reply = [status |-> "OK", val |-> NoValue]
  /\ alive = TRUE

Put(key, val) == store' = With(key, val) /\ Answer("OK", NoValue)

Add(key, val) ==
  IF key \in DOMAIN store THEN UNCHANGED store /\ Answer("ERROR", NoValue)
                          ELSE Put(key, val)

Get(key) ==
  /\ UNCHANGED store
  /\ IF key \in DOMAIN store THEN Answer("OK", store[key])
                             ELSE Answer("ERROR", NoValue)

Del(key) ==
  /\ store' = Without(key)
  /\ Answer(IF key \in DOMAIN store THEN "OK" ELSE "ERROR", NoValue)

Stop == alive' = FALSE /\ store' = [k \in {} |-> NoValue] /\ UNCHANGED reply

Serve(key, val) ==
  /\ Put(key, val) \/ Add(key, val) \/ Get(key) \/ Del(key)
  /\ UNCHANGED alive

Next ==
  /\ alive
  /\ Stop \/ \E key \in Keys, val \in Values : Serve(key, val)

Spec == Init /\ [][Next]_kvars

============================================================================
