--------------------------- MODULE MCTraceCapture ---------------------------
(* Words of two bytes, one of them magic, in a ring of four words.  The       *)
(* device sends packets of two to four words about three threads, some of the *)
(* wrong length or with a tag nobody knows; the noise holds headers that      *)
(* announce a packet of no data and packets one word and far too long.        *)
EXTENDS TraceCapture, TLC

MCMagic      == <<7>>
MCTags       == {<<0>>, <<2>>}
MCTagWords   == (<<0>> :> 0) @@ (<<2>> :> 2)
MCSwapIn     == <<3>>
MCThreadName == <<4>>
Unparsed     == <<5>>

Header(data_words) == <<data_words, 7>>
TagWord(tag) == <<0>> \o tag
Threads == {<<0, a>> : a \in 1..3}
MCNames == {<< <<0, 1>>, <<1, 1>> >>, << <<0, 1>>, <<2, 2>> >>, << <<0, 3>>, <<1, 1>> >>}

MCPackets ==
  {<<Header(0), TagWord(t)>> : t \in MCTags \cup {MCSwapIn, MCThreadName, Unparsed}}
  \cup {<<Header(1), TagWord(t), a>> : t \in {MCSwapIn, MCThreadName}, a \in Threads}
  \cup {<<Header(2), TagWord(t), <<0, 1>>, <<1, 1>> >> : t \in {<<0>>, <<2>>, MCSwapIn}}
  \cup {<<Header(2), TagWord(MCThreadName)>> \o rest : rest \in MCNames}
=============================================================================
