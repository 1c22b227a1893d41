----------------------------- MODULE MCResolver -----------------------------
(***************************************************************************)
(* Small instances of Resolver for TLC.                                    *)
(***************************************************************************)
EXTENDS Resolver, TLC

MCClient == {"c1", "c2"}
MCId == {1, 2}
MCDbId == {1, 2}
MCData == {"x", "y"}

drv(name, type, timed) == [name |-> name, type |-> type, timed |-> timed]

csv == drv("csv", 0, TRUE)
sip == drv("sip", 0, TRUE)
thinq == drv("thinq", 0, TRUE)
alcazar == drv("alcazar", 0, TRUE)
coure_anq == drv("coure_anq", 0, TRUE)
bulkvs_untimed == drv("bulkvs", 0, FALSE)
cnam == drv("cnam", 1, TRUE)

dgram(client, id, db, type, data, frame) ==
  [client |-> client, id |-> id, db |-> db, type |-> type, data |-> data, frame |-> frame]

tagged_x == dgram("c1", 1, 1, 0, "x", "ok")
tagged_y_same_id == dgram("c2", 1, 1, 0, "y", "ok")
cnam_y_same_id == dgram("c2", 1, 2, 1, "y", "ok")
cnam_y == dgram("c2", 2, 2, 1, "y", "ok")

short == dgram("c1", 2, 1, 0, "x", "short")
bad_frame == dgram("c1", 2, 2, 1, "x", "bad_type")

MCDriver == {csv, sip, thinq, alcazar, coure_anq, bulkvs_untimed, cnam}

\* Two clients, and two requests of one client, that use the same id.
SameId == {tagged_x, tagged_y_same_id, cnam_y_same_id}
CollidingDatagram == SameId \cup {bad_frame, short}

\* Ids that tell the requests apart.
DistinctDatagram == {tagged_x, cnam_y}

map(d1, d2) == (1 :> d1) @@ (2 :> d2)

\* Reloads that change the class and the type of a database id, and drop it.
ReloadConfig == {map(thinq, cnam), map(bulkvs_untimed, csv), map(sip, NoDriver)}
TimedConfig == {map(thinq, cnam), map(coure_anq, csv), map(NoDriver, alcazar)}
OneConfig == {map(thinq, cnam)}

AllFaults == {"throw", "fail"}
NoFaults == {}
=============================================================================
