--------------------------- MODULE MCInstructions ---------------------------
EXTENDS Instructions

Block(name, idx, bytes, desc, code, gap) ==
  [name |-> name, idx |-> idx, bytes |-> bytes, desc |-> desc, code |-> code, gap |-> gap]

Opcodes == {0, 1, 37, 52, 53, 149, 164, 212, 229, 245, 255}

(* Blocks without code, with two lines of it, and with a description; with    *)
(* one opcode and with several, in any order; one or two blank lines apart.   *)
Indexes == {<<0>>, <<1>>, <<255>>, <<0, 1>>, <<1, 0>>, <<0, 1, 255>>, <<255, 1>>}
Forms(name) ==
  {Block(name, ops, 1, None, <<>>, 1) : ops \in Indexes}
    \cup {Block(name, ops, 0, None, <<"fetch", "jump">>, 2) : ops \in Indexes}
    \cup {Block(name, ops, 2, name, <<"compute">>, 1) : ops \in Indexes}
SmallListings ==
  {<<>>} \cup {<<f>> : f \in Forms("first")}
    \cup {<<f, g>> : f \in Forms("first"), g \in Forms("second")}
    \cup {<<f, g, h>> : f \in {k \in Forms("first") : k.bytes = 1},
                        g \in {k \in Forms("second") : k.bytes = 2}, h \in {k \in Forms("third") : k.bytes = 0}}

(* What the arithmetic needs, in the order of ops.txt and genops.txt          *)
Listed ==
  << Block("subb_95", <<149>>, 2, "SUBB A, iram", <<"subb">>, 1),
     Block("da_a", <<212>>, 1, "DA A", <<"da">>, 1),
     Block("mov_e5", <<229>>, 2, "MOV A, iram", <<"mov_a">>, 1),
     Block("mov_f5", <<245>>, 2, "MOV iram, A", <<"mov_iram">>, 1),
     Block("mul", <<164>>, 1, None, <<"mul">>, 2),
     Block("add_ad", <<37>>, 2, "ADD A, addr", <<"add">>, 1),
     Block("addc_ai", <<52>>, 2, "ADDC A, #data", <<"addc">>, 1),
     Block("addc_ad", <<53>>, 2, "ADDC A, addr", <<"addc">>, 1),
     Block("subb_ad", <<149>>, 2, "SUBB A, addr", <<"subb">>, 2) >>

(* Bytes with the nibbles and the signs that set and clear every flag         *)
SomeLimbs == {0, 9, 127, 144, 153, 255}
SomeFactors == {0, 2, 128, 255}
StartFlags == {{}, {"AC"}, Flag \ {"C"}}
=============================================================================
