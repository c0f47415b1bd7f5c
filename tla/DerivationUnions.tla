-------------------------- MODULE DerivationUnions --------------------------
(***************************************************************************)
(* What derivations promise the packages and resources that have one: a    *)
(* set of lines <<file, line>>, with <<file, -1>> for the file itself.     *)
(***************************************************************************)
EXTENDS Integers, Sequences

CONSTANTS Holders, Texts, FileLines

VARIABLE says     (* the lines of each holder                              *)

Init == says = [ i \in Holders |-> {} ]

LinesOf(text) ==
  UNION { {text[n].file} \X ({-1} \union { text[n].lines[k] : k \in DOMAIN text[n].lines }) :
            n \in DOMAIN text }

Becomes(i, lines) == says' = [ says EXCEPT ![i] = lines ]

Forget(i) == Becomes(i, {})
Read(i, text) == Becomes(i, LinesOf(text))
Copy(i, j) == Becomes(i, says[j])
Unite(i, j) == Becomes(i, says[i] \union says[j])
Include(i, text) == Becomes(i, says[i] \union LinesOf(text))
AddLine(i, f) == Becomes(i, says[i] \union { << f.file, -1 >>, << f.file, f.line >> })

Next ==
  \E i \in Holders :
    \/ Forget(i)
    \/ \E text \in Texts : Read(i, text) \/ Include(i, text)
    \/ \E j \in Holders : Copy(i, j) \/ Unite(i, j)
    \/ \E f \in FileLines : AddLine(i, f)

Spec == Init /\ [][Next]_says
=============================================================================
