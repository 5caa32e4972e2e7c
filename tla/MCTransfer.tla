----------------------------- MODULE MCTransfer -----------------------------
(***************************************************************************)
(* Instances of Transfer.  Vault a has a gallery 1 with two files and a    *)
(* gallery 3 inside it, which has a file and an empty gallery; vault b is  *)
(* empty, has a gallery of the same name with a file of the same name, or  *)
(* has a file where a gallery would go.                                    *)
(***************************************************************************)
EXTENDS Transfer

CONSTANTS a, b

File(p, c) == [what |-> "media", at |-> p, holds |-> {c}]
Folder(p, tags) == [what |-> "gallery", at |-> p, holds |-> tags]

Root == Folder(<< >>, {})
Source == {Root, Folder(<<1>>, {"t1"}), File(<<1, 1>>, "x"), File(<<1, 2>>, "y"),
           Folder(<<1, 3>>, {"t3"}), File(<<1, 3, 1>>, "z"), Folder(<<1, 3, 2>>, {"t4"})}
Clash == {Root, Folder(<<1>>, {"u1"}), File(<<1, 1>>, "o"), Folder(<<1, 3>>, {})}
Blocked == {Root, Folder(<<1>>, {}), File(<<1, 3>>, "p")}

MCStart == {[v \in {a, b} |-> IF v = a THEN Source ELSE t] : t \in {{Root}, Clash, Blocked}}

Ask(kind, from, into, mode, paths, to, policy) ==
    [kind |-> kind, src |-> from, dst |-> into, mode |-> mode, paths |-> paths, to |-> to,
     policy |-> policy]

MCTask ==
    {Ask("images", a, b, mode, {<<1, 1>>, <<1, 2>>}, << >>, "fail") : mode \in {"move", "copy"}}
    \cup {Ask("galleries", a, b, mode, {<<1>>}, << >>, policy) :
             mode \in {"move", "copy"}, policy \in {"fail", "combine", "suffix"}}
    \cup {Ask("galleries", a, b, "move", {<<1>>, <<1, 3>>}, << >>, "fail"),
          Ask("combine", a, b, "move", {<<1>>}, <<1>>, "fail"),
          Ask("images", a, a, "move", {<<1, 1>>, <<1, 2>>}, <<1, 3>>, "fail"),
          Ask("galleries", a, a, "move", {<<1, 3>>}, << >>, "fail"),
          Ask("combine", a, a, "move", {<<1, 3>>}, <<1>>, "fail")}

MCSuffixNames == [n \in 1 .. 3 |-> << 7, 8 >>]
=============================================================================
