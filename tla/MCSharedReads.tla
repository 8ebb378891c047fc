---------------------------- MODULE MCSharedReads ----------------------------
(***************************************************************************)
(* Instances of SharedReads for TLC: of each component the values of its   *)
(* constants.                                                              *)
(***************************************************************************)
EXTENDS SharedReads, TLC

CONSTANTS c1, c2

(***************************************************************************)
(* Two callers, two sources whose commands run behind the same two hosts,  *)
(* which take one session each, and a source written down.                 *)
(***************************************************************************)
Paths == "slurm" :> <<1, 2>> @@ "genders" :> <<2, 1>> @@ "file" :> <<>>
GroupCall(kind, refs, source) == [kind |-> kind, refs |-> refs, source |-> source]
Ref(source, group) == [source |-> source, group |-> group]
GroupCalls ==
  {c1 :> GroupCall("expr", <<Ref("bare", "g1"), Ref("bare", "g2")>>, "bare")
     @@ c2 :> GroupCall("all", <<>>, "slurm"),
   c1 :> GroupCall("groups_of", <<>>, "bare")
     @@ c2 :> GroupCall("expr", <<Ref("genders", "g1")>>, "bare"),
   c1 :> GroupCall("all", <<>>, "file") @@ c2 :> GroupCall("all", <<>>, "genders")}

GroupsValues ==
  [Callers |-> {c1, c2}, Groups |-> {"g1", "g2"}, Order |-> <<"slurm", "genders", "file">>,
   Static |-> {"file"}, Listing |-> {"slurm"}, Alls |-> {"genders"}, Cached |-> {"slurm"},
   Path |-> Paths, Limit |-> 1, Ops |-> GroupCalls,
   Begins |-> {{<<"slurm", "g1">>, <<"genders", "g1">>, <<"file", "g2">>}}, Old |-> {{"g2"}},
   Fickle |-> {<<"slurm", "g1">>}, Changes |-> 1]

(***************************************************************************)
(* Three workers, two of which want the password that is asked for.        *)
(***************************************************************************)
Wanted == "w1" :> "ask" @@ "w2" :> "ask" @@ "w3" :> "doc"
Kinds == "ask" :> "prompt" @@ "helper" :> "command" @@ "doc" :> "sops"
OneDocument == [n \in {"ask", "helper", "doc"} |-> "document"]

CredentialsValues ==
  [Names |-> {"ask", "helper", "doc"}, Workers |-> {"w1", "w2", "w3"}, Wants |-> Wanted,
   Kind |-> Kinds, Document |-> OneDocument, Terminals |-> BOOLEAN]

(***************************************************************************)
(* A configuration with three includes, one inside another; some twice,    *)
(* in a circle, or with an error.                                          *)
(***************************************************************************)
Declares(name) == [what |-> "host", of |-> name]
Include(file) == [what |-> "include", of |-> file]
Layout ==
  "m" :> <<Declares("h1"), Include("a"), Include("b"), Declares("h2")>>
  @@ "a" :> <<Include("c"), Declares("h3")>> @@ "b" :> <<Declares("h4")>> @@ "c" :> <<Declares("h5")>>
TheLayouts ==
  {Layout, [Layout EXCEPT !["b"] = <<Include("a")>>], [Layout EXCEPT !["c"] = <<Include("m")>>],
   [Layout EXCEPT !["a"] = <<[what |-> "broken", of |-> ""]>>], [Layout EXCEPT !["c"] = <<Include("b")>>]}

DhcpValues ==
  [Workers |-> {"w1", "w2"}, Files |-> {"m", "a", "b", "c"}, Main |-> "m",
   Layouts |-> TheLayouts, prefetchers |-> 2, maxFiles |-> 4, maxDepth |-> 2, Failures |-> 1]

Reference == INSTANCE DhcpSequential WITH
  Workers <- OfDhcp.Workers, Files <- OfDhcp.Files, Main <- OfDhcp.Main,
  Layouts <- OfDhcp.Layouts, prefetchers <- OfDhcp.prefetchers,
  maxFiles <- OfDhcp.maxFiles, maxDepth <- OfDhcp.maxDepth,
  Failures <- OfDhcp.Failures, layout <- v1, pc <- v2, answer <- v3, ended <- v4,
  reader <- v5, memo <- v6, frames <- v7, files <- v8, hosts <- v9, fetch <- v10,
  stopped <- v11, disk <- v12, failures <- v13

\* Files read ahead of the parser give it what one file read after another gives
\* it, the errors and their order included.  (dhcp.fetch)
AsOneByOne == scene = "dhcp" => Reference!AsOneByOne
=============================================================================
