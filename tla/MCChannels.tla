----------------------------- MODULE MCChannels -----------------------------
(* Trees of channels for the runs of Channels.                             *)
EXTENDS Channels

CONSTANTS root, mid, leaf, held, w, x, y, z

\* root:2, mid:2:throttle=2, mid.leaf:1:sequential, held:1:paused
Nested == [c \in Tree \ {root} |-> IF c = leaf THEN mid ELSE root]
NestedCapacity == [c \in Tree |-> IF c \in {leaf, held} THEN 1 ELSE 2]
NestedChannel == [j \in Jobs |-> CASE j = w -> held [] j = z -> mid [] OTHER -> leaf]

ByName == [j \in Jobs |->
  CASE j = w -> 0 [] j = x -> 1 [] j = y -> 2 [] j = z -> 3]

MidThrottle == [c \in Tree |-> IF c = mid THEN 2 ELSE 0]
=============================================================================
