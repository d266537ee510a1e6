---------------------------- MODULE MCPixelMaps ----------------------------
(* Small pictures for model checking PixelMaps: all pictures of a few      *)
(* pixels in colours whose first byte or mean is a boundary, and wider     *)
(* ones, in black and white, around the eight pixels of a byte.            *)
EXTENDS PixelMaps, FiniteSets

Colours == {<<255, 255, 255>>, <<32, 10, 0>>, <<127, 128, 129>>, <<128, 127, 128>>}
Black == <<0, 0, 0>>
White == <<255, 255, 255>>

Of(w, h, s) == [width |-> w, height |-> h, pixels |-> s]

Small == UNION {{Of(d[1], h, s) : s \in [1 .. d[1] * d[2] -> Colours], h \in {d[2], -d[2]}} :
                  d \in {<<1, 1>>, <<2, 1>>, <<1, 2>>, <<2, 2>>}}

(* At most two black pixels, or at most two white ones.                    *)
Spots(n) ==
  {[k \in 1 .. n |-> IF k \in S THEN c ELSE d] :
     S \in {T \in SUBSET (1 .. n) : Cardinality(T) <= 2}, <<c, d>> \in {<<Black, White>>, <<White, Black>>}}

TwoBlack(n) == {[k \in 1 .. n |-> IF k \in T THEN Black ELSE White] :
                  T \in {{a, b} : a, b \in 1 .. n}}

Wide == UNION {{Of(w, 1, s) : s \in Spots(w)} : w \in {7, 8, 9}}
        \cup {Of(0, 2, <<>>)}
        \cup {Of(9, h, s) : h \in {2, -2}, s \in TwoBlack(18)}

MCPictures == Small \cup Wide
MCModes == -1 .. 7
MCUnsetI == {-8, 0, 3, 8}
=============================================================================
