----------------------------- MODULE DhcpSequential -----------------------------
(***************************************************************************)
(* What a parse of the DHCP server's files gives without a fetcher, one    *)
(* file read after the other: the reference for DhcpFetch, in a module of  *)
(* its own because it is recursive.                                        *)
(***************************************************************************)
EXTENDS DhcpFetch

\* The parse without a fetcher: one file after the other, each read where its
\* include statement is reached, with the reads that did not succeed given.
RECURSIVE Sequential(_, _, _, _)
Sequential(todo, count, read, bad) ==
  IF todo = <<>> THEN Parsed(read)
  ELSE LET last == Len(todo)  f == todo[last].file  at == todo[last].at
           chain == {todo[i].file : i \in 1..last}
           past == Past(todo)
       IN IF at > Len(layout[f]) THEN Sequential(SubSeq(todo, 1, last - 1), count, read, bad)
          ELSE LET s == layout[f][at] IN
            CASE s.what = "host" -> Sequential(past, count, Append(read, s.of), bad)
              [] s.what = "broken" -> Error("not_valid")
              [] OTHER ->
                 LET e == IncludeError(s.of, chain, count + 1, last - 1) IN
                 IF e # "none" THEN Error(e)
                 ELSE IF s.of \in DOMAIN bad THEN Error(bad[s.of])
                 ELSE Sequential(Append(past, [file |-> s.of, at |-> 1]), count + 1, read, bad)

NotRead == {f \in Files : fetch[f] \in {"failed", "canceled"}}

\* However the reads ahead overtake each other, and whichever of them fail, a
\* parse gives what reading one file after the other would have: the same
\* declarations in the same order, or the error of the statement it would
\* have come to first.
AsOneByOne ==
  \A w \in Workers : pc[w] = "stop" =>
    answer[w] = Sequential(<<[file |-> Main, at |-> 1]>>, 1, <<>>, [f \in NotRead |-> fetch[f]])
===============================================================================
