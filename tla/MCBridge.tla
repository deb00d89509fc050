------------------------------ MODULE MCBridge ------------------------------
(* Bridge for TLC: bridges of three or four radios. *)
EXTENDS Bridge

R(proto, chan, freq) == [proto |-> proto, chan |-> chan, freq |-> freq]
MtMcMt == <<R("MT", "a", 1), R("MC", "m", 2), R("MT", "a", 3)>>
MtRnsMc == <<R("MT", "a", 1), R("RNS", "r", 2), R("MC", "m", 3)>>
MtLwMc == <<R("MT", "a", 1), R("LW", "lw", 2), R("MC", "m", 3)>>
CuCuLwMt == <<R("CU", "c", 1), R("CU", "c", 2), R("LW", "lw", 3), R("MT", "a", 4)>>
AllRoutes(radio) == [i \in DOMAIN radio |-> DOMAIN radio \ {i}]

Sent(o, proto, chan, kind, who, text, src, pid) ==
  [proto |-> proto, chan |-> chan, kind |-> kind, body |-> [who |-> who, text |-> text],
   src |-> src, pid |-> pid, hop |-> IF proto = "MT" THEN 1 ELSE 0, org |-> o, part |-> 0,
   by |-> "client"]

\* A node sends a text on Meshtastic, Alice the same one on MeshCore.
TextClients ==
  <<[freq |-> 1, pkt |-> Sent(1, "MT", "a", "text", NoName, <<"hi">>, <<"node", "n1">>, <<"p1", 0>>)],
    [freq |-> 2, pkt |-> Sent(2, "MC", "m", "text", <<"name", "Alice">>, <<"hi">>, None, NoPid)]>>
\* A node sends a text; a Reticulum frame comes in.
RnsClients ==
  <<[freq |-> 1, pkt |-> Sent(1, "MT", "a", "text", NoName, <<"hi">>, <<"node", "n1">>, <<"p1", 0>>)],
    [freq |-> 2, pkt |-> Sent(2, "RNS", "r", "raw", NoName, <<"rns">>, None, NoPid)]>>
\* A Custom frame, an uplink of a foreign LoRaWAN device, one text of two nodes.
RawClients ==
  <<[freq |-> 1, pkt |-> Sent(1, "CU", "c", "raw", NoName, <<"cmd">>, None, NoPid)],
    [freq |-> 3, pkt |-> Sent(2, "LW", "lw", "raw", NoName, <<"uplink">>, None, NoPid)],
    [freq |-> 4, pkt |-> Sent(3, "MT", "a", "text", NoName, <<"hi">>, <<"node", "n1">>, <<"p1", 0>>)],
    [freq |-> 4, pkt |-> Sent(4, "MT", "a", "text", NoName, <<"hi">>, <<"node", "n2">>, <<"p2", 0>>)]>>
LwClients ==
  <<[freq |-> 1, pkt |-> Sent(1, "MT", "a", "text", NoName, <<"hi">>, <<"node", "n1">>, <<"p1", 0>>)]>>
Bridging(radio, clients, keyed, repeat) ==
  [radio |-> radio, route |-> AllRoutes(radio), clients |-> clients, keyed |-> keyed,
   frags |-> [p \in {"MT", "MC"} |-> IF p = "MC" THEN 2 ELSE 1], customRepeat |-> repeat,
   stalls |-> 0]

TextPlan == Bridging(MtMcMt, TextClients, {}, FALSE)
RnsPlan == Bridging(MtRnsMc, RnsClients, {}, FALSE)
\* A Reticulum frame alone, too long for MeshCore.
RnsLongPlan == [Bridging(MtRnsMc, <<[RnsClients[2] EXCEPT !.pkt.org = 1]>>, {}, FALSE)
                  EXCEPT !.frags = [@ EXCEPT !["MC"] = 3]]
RawPlan == Bridging(CuCuLwMt, RawClients, {}, TRUE)
\* An uplink radio that forwards nothing it hears.
AbpPlan == [Bridging(MtLwMc, LwClients, {"MT", "MC"}, FALSE)
              EXCEPT !.route = [@ EXCEPT ![2] = {}]]

\* Calls of the dedup cache are held up: a text for each of two radios, and two radios
\* that hear the same text.
PairPlan == [Bridging(SubSeq(MtMcMt, 1, 2), TextClients, {}, FALSE) EXCEPT !.stalls = 1]
TwinPlan == [Bridging(<<R("MT", "a", 1), R("MT", "a", 1), R("MC", "m", 2)>>,
                      LwClients, {}, FALSE)
               EXCEPT !.route = <<{3}, {3}, {}>>, !.stalls = 2]

AllPlans == {TextPlan, RnsPlan, RnsLongPlan, RawPlan, AbpPlan, PairPlan, TwinPlan}

\* The same with a LoRaWAN radio that forwards: here NoReturn does not hold (see the
\* README), so no run uses it.
LwRelayPlans == {Bridging(MtLwMc, LwClients, {"MT", "MC"}, FALSE)}
=============================================================================
