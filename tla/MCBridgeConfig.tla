--------------------------- MODULE MCBridgeConfig ---------------------------
(* BridgeConfig for TLC: a stock bridge, a bench build and a camera, each on a *)
(* board that is new or that an older firmware ran on.                         *)
EXTENDS BridgeConfig, TLC

MCBuilds ==
  LET stock == [camera |-> FALSE, autosave |-> FALSE, disabled |-> {}, enabled |-> {},
                sync |-> <<"MT", "MC", "MT">>, chan |-> <<>>, tx |-> 1, region |-> 1]
  IN {stock,
      [stock EXCEPT !.autosave = TRUE, !.enabled = {3}, !.chan = (3 :> "x")],
      [stock EXCEPT !.camera = TRUE, !.disabled = {1},
                    !.sync = <<"MT", "CUSTOM", "MT">>]}

MCOldBlobs ==
  {[ver |-> 1],
   [ver |-> 2, configured |-> TRUE, id |-> "old", mt |-> "x", mc |-> "y"],
   [ver |-> 3, configured |-> FALSE, id |-> "old", chan |-> <<"y", "x">>],
   [ver |-> 4, configured |-> TRUE, id |-> "old", region |-> 0,
    radio |-> <<[proto |-> "MT", rf |-> "a", chan |-> "x", tx |-> 2],
                [proto |-> "CUSTOM", rf |-> "b", chan |-> "none", tx |-> 1]>>]}

MCRows ==
  {[proto |-> "MT", rf |-> "a", chan |-> "x", tx |-> 2, routes |-> {1}],
   [proto |-> "MT", rf |-> "slow", chan |-> "x", tx |-> 2, routes |-> {2, 3}],
   [proto |-> "CUSTOM", rf |-> "b", chan |-> "none", tx |-> 1, routes |-> {}]}

\* Two plans on one frequency, with another spreading factor.
MCFreq == [rf \in {"a", "slow", "b"} |-> IF rf = "b" THEN 2 ELSE 1]

MCCap == (0 :> 2) @@ (1 :> 1)
=============================================================================
