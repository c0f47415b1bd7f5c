---------------------------- MODULE ContextList ----------------------------
(***************************************************************************)
(* The lists of contexts of common/context/list.c, and the lines of the    *)
(* files they are loaded from and printed to.  A context in a list is a    *)
(* record with a name, a value (NoValue when it is unset, which removes    *)
(* the context) and a priority; a line is a Comment, Malformed or a record *)
(* with a name and a value.  The priority of a context is the number of    *)
(* the line it was read from, so that the order of the lines in a file is  *)
(* the order of importance of its contexts.                                *)
(***************************************************************************)
EXTENDS Integers, Sequences, SequencesExt, ListPlaces

CONSTANTS NoValue,    (* the value of a context that has none              *)
          Comment,    (* a line that is a comment or empty                 *)
          Malformed   (* a line or an argument that is not NAME = VALUE    *)

(* The contexts of a list called name; there is at most one.               *)
Named(list, name) == { i \in DOMAIN list : list[i].name = name }

(* lcfgctxlist_update: a context of the same name is replaced in its       *)
(* place, unless it already has the value.                                 *)
Update(list, ctx) ==
  IF Named(list, ctx.name) = {} THEN Append(list, ctx)
  ELSE LET i == CHOOSE j \in Named(list, ctx.name) : TRUE
       IN  IF list[i].value = ctx.value THEN list ELSE [ list EXCEPT ![i] = ctx ]

(* lcfgcontext_from_string                                                 *)
FromString(line, priority) ==
  [ name |-> line.name, value |-> line.value, priority |-> priority ]

(* A list and the last priority given out, after one line more.            *)
AddLine(state, line) ==
  [ list |-> IF line = Comment THEN state.list
             ELSE Update(state.list, FromString(line, state.priority + 1)),
    priority |-> state.priority + 1 ]

(* The list after all the lines; before is bound to the state so far, so   *)
(* that its value is computed once.                                        *)
UpdateAll(list, priority, lines) ==
  LET upTo[i \in 0 .. Len(lines)] ==
        IF i = 0 THEN [ list |-> list, priority |-> priority ]
        ELSE CHOOSE after \in { AddLine(before, lines[i]) :
                                before \in {upTo[i - 1]} } : TRUE
  IN  upTo[Len(lines)].list

(* What lcfgctxlist_from_file makes of the lines of a file.                *)
FromFile(lines) == UpdateAll(<<>>, 0, lines)

(* What lcfgctxlist_print writes: the contexts that have a value.          *)
Printed(list) ==
  AtPlaces([ i \in DOMAIN list |-> [ name |-> list[i].name, value |-> list[i].value ] ],
           { i \in DOMAIN list : list[i].value # NoValue })

MaxPriority(list) ==
  LET priorities == {0} \cup { list[i].priority : i \in DOMAIN list }
  IN  CHOOSE p \in priorities : \A q \in priorities : q <= p

SortByPriority(list) ==
  SortedByKey([ i \in DOMAIN list |-> list[i].priority ], list)

(* A variant of Diff that does not look for new contexts.                  *)
DiffOneWay(list1, list2) ==
  \E i \in DOMAIN list1 : \A j \in DOMAIN list2 : list1[i] # list2[j]

(* lcfgctxlist_diff: a context of one list that the other does not have,   *)
(* or has with another value or priority.                                  *)
Diff(list1, list2) ==
  \/ \E i \in DOMAIN list1 : \A j \in DOMAIN list2 : list1[i] # list2[j]
  \/ \E j \in DOMAIN list2 : Named(list1, list2[j].name) = {}

(* The list of lcfgcontext_update_pending: that of the pending file with   *)
(* the changes, each more important than all that was there.               *)
NewList(list, changes) == UpdateAll(list, MaxPriority(list), changes)

(* What lcfgcontext_update_pending writes when the list has changed; list  *)
(* and sorted are bound to their values, as before is above.               *)
NewLines(lines, changes) ==
  CHOOSE text \in { Printed(sorted) : sorted \in
                   { SortByPriority(list) : list \in {NewList(FromFile(lines), changes)} } } : TRUE

(* The contexts of a file as its readers see them.                         *)
Contexts(lines) ==
  { << c.name, c.value >> : c \in { d \in Range(FromFile(lines)) : d.value # NoValue } }
=============================================================================
