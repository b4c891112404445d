--------------------------- MODULE MCChannelQueue ---------------------------
(* Instances of ChannelQueue for TLC: settings of the sessions' channels *)
EXTENDS ChannelQueue, TLC

CONSTANTS s1, s2

OnlyInterval == s1 :> 2
OnlyWindow == s1 :> 1
NoKnob == s1 :> 0
OnInterjection == s1 :> TRUE
OffInterjection == s1 :> FALSE

(* s1 has a cooldown and a window, s2 only a window *)
MixedInterval == s1 :> 2 @@ s2 :> 0
MixedWindow == s1 :> 1 @@ s2 :> 1
MixedInterjection == s1 :> TRUE @@ s2 :> FALSE
MixedOff == s1 :> FALSE @@ s2 :> FALSE
=============================================================================
