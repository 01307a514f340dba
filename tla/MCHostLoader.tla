---------------------------- MODULE MCHostLoader ----------------------------
(* Seven files: a chain and a diamond of imports, one with more imports and *)
(* one with more exports than there is room for, one cut short, one with a  *)
(* bad relocation table, and a name that is not found.  A bank holds 64     *)
(* bytes; there is room for two imports and two exports of a module.        *)
EXTENDS HostLoader

Ref(k, a, m, n) == [kind |-> k, at |-> a, mno |-> m, no |-> n]
MCFile == [
    Out |-> [imports |-> <<>>, code |-> 3, data |-> 2, exports |-> <<0, 2, 1>>, read |-> "all",
             refs |-> {Ref("JSR", 0, 0, 1), Ref("LDA", 1, 0, 0), Ref("vtable", 0, 0, 2)}],
    In |-> [imports |-> <<"Out">>, code |-> 2, data |-> 1, exports |-> <<1>>, read |-> "all",
            refs |-> {Ref("JSL", 0, 1, 2), Ref("ancestor", 0, 1, 0)}],
    Texts |-> [imports |-> <<"In", "Out">>, code |-> 4, data |-> 3, exports |-> <<3>>, read |-> "all",
               refs |-> {Ref("JSL", 0, 0, 3), Ref("JSL", 1, 1, 1), Ref("JSL", 2, 2, 1),
                         Ref("PER", 3, 2, 2), Ref("PER", 0, 2, 3), Ref("vtable", 1, 1, 1), Ref("LDA", 2, 2, 0)}],
    Many |-> [imports |-> <<"Out", "In", "Gone">>, code |-> 3, data |-> 1, exports |-> <<2>>, read |-> "all",
              refs |-> {Ref("JSL", 0, 1, 3), Ref("JSL", 1, 2, 1), Ref("LDA", 2, 3, 0)}],
    Cut |-> [imports |-> <<"In">>, code |-> 2, data |-> 1, exports |-> <<>>, read |-> "cut", refs |-> {}],
    Bad |-> [imports |-> <<"Out">>, code |-> 3, data |-> 2, exports |-> <<0>>, read |-> "bad",
             refs |-> {Ref("vtable", 0, 1, 1), Ref("JSR", 0, 0, 1)}],
    Lost |-> [imports |-> <<"Gone", "Cut", "In">>, code |-> 2, data |-> 1, exports |-> <<>>,
              read |-> "all", refs |-> {}]]
Named == {"Out", "In", "Texts", "Many", "Cut", "Bad", "Lost", "Gone"}
MCCommandLines == {<<x>> : x \in Named} \cup {<<x, y>> : x, y \in Named}
                      \cup {<<x, y, z>> : x, y, z \in Named}
=============================================================================
