---------------------------- MODULE MCMIRRegAlloc -----------------------------
(* Small functions over three allocatable and two scratch registers: loops,    *)
(* loops whose parameters and arguments have to be copied in the right order,  *)
(* and diamonds with more values than registers.                               *)
EXTENDS MIRRegAlloc

a0 == -1        \* caller saved: argument and result
a1 == -2        \* caller saved: argument
s0 == -3        \* callee saved
t6 == -4        \* scratch
t5 == -5        \* scratch

MCPhysical == {a0, a1, s0, t6, t5}
MCPalette == <<a0, a1, s0>>
MCCallerSaved == {a0, a1, t5}
MCCalleeSaved == <<s0>>
MCCallClobbers == {a0, a1, t5, t6}
MCScratch == <<t6, t5>>
MCZeroClobbers == {t5}

I(op, def, uses, imp) == [op |-> op, def |-> def, uses |-> uses, imp |-> imp, slot |-> 0, id |-> 0]
Imm(v) == I("imm", {v}, << >>, {})
Move(d, s) == I("move", {d}, <<s>>, {})
Op(d, a, b) == I("op", {d}, <<a, b>>, {})
Make(v) == I("op", {v}, << >>, {})
Use(a) == I("op", {}, <<a>>, {})
Call0 == I("call", {a0}, << >>, {})     \* calls with 0, 1 and 2 arguments
Call1 == I("call", {a0}, << >>, {a0})
Call2 == I("call", {a0}, << >>, {a0, a1})
Zero(a) == I("memzero", {}, <<a>>, {})

Numbered(blocks) ==
  [b \in DOMAIN blocks |-> [i \in DOMAIN blocks[b] |-> [blocks[b][i] EXCEPT !.id = 10 * b + i]]]

Program(blocks, edges, n) == [code |-> Numbered(blocks), succ |-> edges, regs |-> 1 .. n]

\* A loop between an entry and an exit block: three values set up on entry, two
\* instructions in the loop, a value used after it; 4 stays live throughout.
LoopEdges == <<{2}, {2, 3}, {}>>

Entries == {<<Imm(1), Imm(2)>>, <<Move(1, a0), Imm(2)>>}
Bodies == {<<Op(3, 1, 2)>>, <<Op(1, 1, 2)>>, <<Move(3, 1)>>, <<Move(2, 1)>>,
           <<Move(a0, 1), Call1, Move(3, a0)>>, <<Move(a0, 2), Call1>>, <<Call0>>, <<Zero(1)>>, <<Imm(3)>>}
Exits == {<<Op(3, 1, 2)>>, <<Use(2)>>, <<Use(1), Use(3)>>}

LoopPrograms ==
  {Program(<<e \o <<Imm(3), Make(4)>>, x \o y, z \o <<Use(4)>>>>, LoopEdges, 4) :
     e \in Entries, x \in Bodies, y \in Bodies, z \in Exits}

\* Two parameters on entry, two arguments at a call: the copies must not run
\* over one another.  The entry copies carry the registers still to be read as
\* implicit uses, as emit_parameter_copies leaves them.
Params == <<I("move", {1}, <<a0>>, {a1}), Move(2, a1)>>
ArgBodies == {<<Move(a0, 1), Move(a1, 2), Call2, Move(3, a0)>>,
              <<Move(a0, 2), Move(a1, 1), Call2, Move(3, a0)>>,
              <<Op(3, 1, 2), Move(a0, 3), Move(a1, 3), Call2>>,
              <<Move(3, 2), Op(2, 2, 1)>>, <<Imm(3), Move(1, 3)>>}
ArgExits == {<<Op(3, 1, 2), Use(3)>>, <<Use(2), Use(3)>>, <<Move(a0, 3), Move(a1, 1), Call2, Use(2)>>}

ArgPrograms ==
  {Program(<<Params \o <<Imm(3)>>, x \o y, z>>, LoopEdges, 3) :
     x \in ArgBodies, y \in ArgBodies, z \in ArgExits}

\* A diamond with more values than registers, most of them live across calls:
\* instructions on three spilled registers need a fresh virtual one.
DiamondEdges == <<{2, 3}, {4}, {4}, {}>>
Tops == {<<Make(1), Make(2), Make(3)>>, <<Move(1, a0), Make(2), Imm(3)>>, <<Make(1), Move(2, 1), Make(3)>>}
Arms == {<<Op(3, 1, 2)>>, <<Move(a0, 1), Call1, Move(2, a0)>>, <<Move(3, 2), Op(2, 2, 1)>>,
         <<Op(2, 2, 3), Call0>>}
Joins == {<<Op(4, 1, 2), Op(4, 3, 4), Use(1), Use(4)>>, <<Call0, Op(4, 2, 3), Op(4, 1, 4), Use(4)>>,
          <<Imm(4), Op(1, 1, 2), Call0, Op(3, 3, 4), Op(1, 1, 3)>>}

DiamondPrograms ==
  {Program(<<t \o <<Make(5)>>, l, r, <<Call0>> \o j \o <<Op(3, 5, 4), Use(3)>>>>, DiamondEdges, 5) :
     t \in Tops, l \in Arms, r \in Arms, j \in Joins}

MCPrograms == LoopPrograms \cup ArgPrograms \cup DiamondPrograms
=============================================================================
