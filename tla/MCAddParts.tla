---- MODULE MCAddParts ----
EXTENDS AddParts, TLC
CONSTANTS a, b, c

Cap(x) == [cap |-> x, major |-> 1]
Cap2(x) == [cap |-> x, major |-> 2]

\* Release by release: what the parts 1, 2 and 3 provide and require.  Part 1 requires the
\* others, part 2 the third; each in its first release, or in its second as well.  In Moved
\* the third capability is part 3's first, and part 1's later.
Own == <<a, b, c>>
Plain == [p \in Parts |-> [r \in Releases |-> {Cap(Own[p])}]]
Bumped == [Plain EXCEPT ![3][2] = {Cap2(c)}]
Chain == [provides |-> Plain,
          requires |-> <<<<{Cap(b)}, {Cap(b), Cap(c)}>>, <<{Cap(c)}, {}>>, <<{}, {}>>>>]
Majors == [provides |-> Bumped,
           requires |-> <<<<{Cap(c)}, {Cap2(c)}>>, <<{}, {Cap(a)}>>, <<{}, {}>>>>]
Cycle == [provides |-> Plain,
          requires |-> <<<<{Cap(b)}, {}>>, <<{Cap(a)}, {Cap(c)}>>, <<{}, {Cap(c)}>>>>]
Moved == [provides |-> [Plain EXCEPT ![1][2] = {Cap(a), Cap(c)}, ![3][2] = {}],
          requires |-> <<<<{}, {}>>, <<{Cap(c)}, {Cap(c)}>>, <<{}, {}>>>>]
MCSymmetry == Permutations(Workers)
MCRegistries == {Chain, Majors, Cycle, Moved}
====
