------------------------------- MODULE Lbtrace -------------------------------
(***************************************************************************)
(* The trace printer (lbtrace.c) and its table of threads (thread.c).  A   *)
(* packet is a sequence of words: the magic word, the word that holds the  *)
(* line number and the tag, and the words the tag calls for.  Two tags     *)
(* touch the thread table; a packet whose length is not the one its tag    *)
(* calls for, a tag nobody knows and a full table end the program.         *)
(***************************************************************************)
EXTENDS Integers, Sequences

CONSTANTS
  WordBytes,     \* bytes of a word: 4
  Magic,         \* TRACE_MAGIC, the WordBytes - 1 low bytes of the magic word
  PacketWords,   \* entries of packet_buffer: 32
  Tags,          \* the tags of parse_packet's switch that leave the table alone
  TagWords,      \* how many words parse_packet takes for each of them
  SwapIn,        \* TAG_SWAP_IN: one word, the address of a thread
  ThreadName,    \* TAG_THREAD_NAME: an address and the words of a name
  NameWords,     \* 8
  NumberThreads  \* entries of the thread table: 32

ASSUME WordBytesAssumption   == WordBytes \in Nat \ {0}
ASSUME PacketWordsAssumption == PacketWords \in Nat \ {0}
ASSUME TagsAssumption ==
  /\ TagWords \in [Tags -> Nat]
  /\ SwapIn \notin Tags /\ ThreadName \notin Tags /\ SwapIn # ThreadName
  /\ NameWords \in Nat
ASSUME NumberThreadsAssumption == NumberThreads \in Nat \ {0}

VARIABLES
  threads,       \* the entries in use, in the order of their allocation
  packet_buffer, \* the words of the packet this step prints, or nothing: <<>>
  exited         \* why the program has given up, or "no"

lbtraceVars == <<threads, packet_buffer, exited>>

LbtraceInit == threads = <<>> /\ packet_buffer = <<>> /\ exited = "no"

-----------------------------------------------------------------------------
(* thread.c.  Entries are never freed, so those in use are a prefix.       *)

\* A thread first seen by its address has no name: thread_t.name is NULL.
NoName == <<>>

Indices(table, address) == {i \in DOMAIN table : table[i].address = address}

\* _thread_alloc finds no free entry.
TableFull(table, address) ==
  Indices(table, address) = {} /\ Len(table) = NumberThreads

\* Mutant: every address is new.
ThreadFindAllocates(table, address) ==
  IF Len(table) = NumberThreads THEN table
  ELSE Append(table, [address |-> address, name |-> NoName])

\* thread_find: the table once the address has an entry in it.
ThreadFind(table, address) ==
  IF Indices(table, address) # {} THEN table
  ELSE Append(table, [address |-> address, name |-> NoName])

\* Mutant: the name goes to the last entry.
ThreadCreateLast(table, address, name) ==
  LET found == ThreadFind(table, address)
  IN  [found EXCEPT ![Len(found)].name = name]

ThreadCreate(table, address, name) ==
  LET found == ThreadFind(table, address)
  IN  [i \in DOMAIN found |->
         IF found[i].address = address THEN [found[i] EXCEPT !.name = name]
                                       ELSE found[i]]

-----------------------------------------------------------------------------
(* lbtrace.c.  Bytes are in the order in which they were sent, the most    *)
(* significant one first.                                                  *)

IsMagic(word) == Tail(word) = Magic

\* The low half of the second word; the high half is the line number.
TagOf(word) == SubSeq(word, WordBytes \div 2 + 1, WordBytes)

\* The words parse_packet takes from a packet: after a wrong magic word it returns.
Wanted(packet) ==
  LET tag == TagOf(packet[2])
  IN  IF ~IsMagic(packet[1]) THEN 1
      ELSE 2 + CASE tag \in Tags     -> TagWords[tag]
                 [] tag = SwapIn     -> 1
                 [] tag = ThreadName -> 1 + NameWords

KnownTag(packet) == TagOf(packet[2]) \in Tags \cup {SwapIn, ThreadName}

\* The guard of lbtrace_packet_add_word compares the count of words with the
\* size of the buffer in bytes.
AddWordLimit == WordBytes * PacketWords

Address(packet) == packet[3]
Name(packet) == SubSeq(packet, 4, 3 + NameWords)

\* What parse_packet does to the thread table; it comes before the check for
\* words left over.
ThreadsAfter(packet) ==
  LET tag == TagOf(packet[2])
  IN  IF tag = SwapIn
      THEN ThreadFind(threads, Address(packet))
      ELSE IF tag = ThreadName
           THEN ThreadCreate(threads, Address(packet), Name(packet))
           ELSE threads

NoRoomForThread(packet) ==
  /\ TagOf(packet[2]) \in {SwapIn, ThreadName}
  /\ TableFull(threads, Address(packet))

\* How lbtrace_packet_add_word and lbtrace_packet_parse end for a packet.
Outcome(packet) ==
  CASE Len(packet) > AddWordLimit                   -> "too_long"
    [] IsMagic(packet[1]) /\ ~KnownTag(packet)      -> "unparsed_tag"
    [] Len(packet) < Wanted(packet)                 -> "underrun"
    [] IsMagic(packet[1]) /\ NoRoomForThread(packet) -> "no_thread"
    [] Len(packet) > Wanted(packet)                 -> "left_over"
    [] OTHER                                        -> "no"

\* The words of a packet are added one by one and the packet is parsed.
PacketParse(packet) ==
  /\ packet_buffer' = packet
  /\ exited' = Outcome(packet)
  /\ threads' = IF Outcome(packet) = "no" THEN ThreadsAfter(packet) ELSE threads
=============================================================================
