------------------------------ MODULE Framing ------------------------------
(***************************************************************************)
(* The downlink frame: one OFDMA frame carries a payload for every mobile. *)
(* The base's generator (ofdmflexframegen, multi-user) deals the data      *)
(* subcarriers to the users in turn, writes a preamble, the header and as  *)
(* many payload symbols as it has computed, and each mobile's synchroniser *)
(* (ofdmflexframesync) reads the header and then collects the symbols on   *)
(* its own subcarriers until it has the length the header announced.       *)
(*                                                                         *)
(* The air is perfect here: the losses modelled are those that the framing *)
(* itself causes.  An OFDM symbol reaches all mobiles at once.  A mobile   *)
(* in the middle of a frame takes whatever follows, silence and later      *)
(* frames too, for the rest of it.  The preamble (S0a, S0b, S1) is one     *)
(* step; ofdmframesync and the packetizer are external.                    *)
(*                                                                         *)
(* An allocation is the number of its data subcarriers, a payload its      *)
(* length.  Operators named Mutant_... are broken variants of the operator *)
(* they precede, in no specification, that show that the properties can    *)
(* fail.                                                                   *)
(***************************************************************************)
EXTENDS Integers, FiniteSets, FiniteSetsExt

CONSTANTS
  NumUsers,     \* num_nodes_in_net - 1
  Lens,         \* the payload lengths of bursts, in bytes
  Carriers,     \* the numbers of data subcarriers of the allocations in use
  Bps,          \* bits per symbol of the payload modem
  HeaderSyms    \* ofdmflexframe_h_sym_dynamic

ASSUME FramingAssumption ==
  /\ NumUsers \in Nat \ {0}
  /\ Lens \subseteq Nat \ {0}
  /\ Carriers \subseteq Nat /\ \A d \in Carriers : d >= NumUsers
  /\ Bps \in Nat \ {0}
  /\ HeaderSyms \in Nat \ {0}

VARIABLES
  fg,      \* the base's generator
  fs,      \* fs[u]: user u's synchroniser
  joined,  \* history: joined[u], u was seeking when the last frame began
  short    \* history: short[u], the last frame ended before u's payload did

framingVars == <<fg, fs, joined, short>>

Users == 0 .. NumUsers - 1

CeilDiv(a, b) == IF a % b = 0 THEN a \div b ELSE a \div b + 1

\* packetizer_get_enc_msg_len of a payload with a CRC_32 and no coding.  With the
\* code that the base adds after its first allocation it is a larger function of
\* the length; the properties depend only on its being monotone.
EncLen(len) == len + 4
ModLen(len) == CeilDiv(8 * EncLen(len), Bps)

-----------------------------------------------------------------------------
(* The generator.                                                          *)

\* create_multi_user: data subcarrier k belongs to user k % num_users.
NumSubcarriers(d, u) == Cardinality({k \in 0 .. d - 1 : k % NumUsers = u})

Mutant_LeastIsFirst(d) == NumSubcarriers(d, 0)

LeastSubcarriers(d) == Min({NumSubcarriers(d, u) : u \in Users})

\* reconfigure_multi_user: the payload symbols that the frame will have.
SymbolsFor(lens, largest_user, d) ==
  CeilDiv(ModLen(lens[largest_user]), LeastSubcarriers(d))

FreshGenerator(d) ==
  [d |-> d, lens |-> [u \in Users |-> 0], largest_payload |-> 0, largest_user |-> 0,
   num_symbols_payload |-> SymbolsFor([u \in Users |-> 0], 0, d),
   state |-> "load", user |-> 0, symbol_number |-> 0, sent |-> [u \in Users |-> 0]]

\* recreate_modem at the base, between two bursts.
BaseRecreate(d) ==
  /\ fg.state = "load" /\ fg.user = 0
  /\ fg' = FreshGenerator(d)
  /\ UNCHANGED <<fs, joined, short>>

\* multi_user_update_data, for one user after the other.
UpdateData(len) ==
  LET grows == len > fg.largest_payload
      largest == IF grows THEN fg.user ELSE fg.largest_user
      lens == [fg.lens EXCEPT ![fg.user] = len]
  IN  /\ fg.state = "load"
      /\ fg' = [fg EXCEPT
                  !.largest_payload = IF grows THEN len ELSE @,
                  !.largest_user = largest,
                  !.lens = lens,
                  !.num_symbols_payload =
                      IF len # fg.lens[fg.user] THEN SymbolsFor(lens, largest, fg.d) ELSE @,
                  !.user = (fg.user + 1) % NumUsers,
                  !.state = IF fg.user + 1 = NumUsers THEN "preamble" ELSE "load"]
      /\ UNCHANGED <<fs, joined, short>>

-----------------------------------------------------------------------------
(* The synchronisers.  got counts the header's or the payload's symbols,   *)
(* good says that every one so far was the expected one.                   *)

Seeking(d) == [d |-> d, state |-> "seek", got |-> 0, need |-> 0, good |-> TRUE, result |-> "none"]

\* The callback's outcome, and ofdmflexframesync_reset.
Ended(s, result) == [Seeking(s.d) EXCEPT !.result = result]

MobileRecreate(u, d) ==
  /\ fs' = [fs EXCEPT ![u] = Seeking(d)]
  /\ joined' = [joined EXCEPT ![u] = FALSE]
  /\ UNCHANGED <<fg, short>>

Mutant_HeaderOfFirst(u, s, good) ==
  LET got == s.got + s.d
      ok == s.good /\ good /\ s.d = fg.d
  IN  IF got < HeaderSyms THEN [s EXCEPT !.got = got, !.good = ok]
      ELSE IF ok THEN [s EXCEPT !.state = "payload", !.got = 0, !.need = ModLen(fg.lens[0])]
      ELSE Ended(s, "bad header")

\* rxheader: every data subcarrier carries one symbol of the header; it is
\* decoded when the last has come, and the user's length taken from it.
RxHeader(u, s, good) ==
  LET got == s.got + s.d
      ok == s.good /\ good /\ s.d = fg.d
  IN  IF got < HeaderSyms THEN [s EXCEPT !.got = got, !.good = ok]
      ELSE IF ok THEN [s EXCEPT !.state = "payload", !.got = 0, !.need = ModLen(fg.lens[u])]
      ELSE Ended(s, "bad header")

Mutant_NeverReset(u, s, good) ==
  LET got == s.got + NumSubcarriers(s.d, u)
  IN  [s EXCEPT !.got = Min({got, s.need}), !.good = s.good /\ good]

\* rxpayload: the symbols on the user's own subcarriers, until enough have come.
RxPayload(u, s, good) ==
  LET got == s.got + NumSubcarriers(s.d, u)
  IN  IF got < s.need THEN [s EXCEPT !.got = got, !.good = s.good /\ good]
      ELSE Ended(s, IF s.good /\ good THEN "valid" ELSE "invalid")

\* ofdmflexframesync_internal_callback for a symbol of this kind.
Received(u, s, kind) ==
  CASE s.state = "seek" /\ kind = "preamble" -> [Seeking(s.d) EXCEPT !.state = "header"]
    [] s.state = "seek" /\ kind # "preamble" -> s
    [] s.state = "header" -> RxHeader(u, s, kind = "header")
    [] s.state = "payload" -> RxPayload(u, s, kind = "payload" /\ s.d = fg.d /\ s.got = fg.sent[u])

AllReceive(kind) == fs' = [u \in Users |-> Received(u, fs[u], kind)]

-----------------------------------------------------------------------------
(* ofdmflexframegen_writesymbol and the silence between bursts.            *)

WritePreamble ==
  /\ fg.state = "preamble"
  /\ fg' = [fg EXCEPT !.state = "header", !.symbol_number = 0]
  /\ AllReceive("preamble")
  /\ joined' = [u \in Users |-> fs[u].state = "seek" /\ fs[u].d = fg.d]
  /\ UNCHANGED short

WriteHeader ==
  /\ fg.state = "header"
  /\ fg' = IF fg.symbol_number + 1 = CeilDiv(HeaderSyms, fg.d)
             THEN [fg EXCEPT !.state = "payload", !.symbol_number = 0]
             ELSE [fg EXCEPT !.symbol_number = @ + 1]
  /\ AllReceive("header")
  /\ UNCHANGED <<joined, short>>

SentNow == [u \in Users |-> Min({fg.sent[u] + NumSubcarriers(fg.d, u), ModLen(fg.lens[u])})]
LastSymbol == fg.symbol_number + 1 = fg.num_symbols_payload

\* A payload symbol; the last one resets the generator.
WritePayload ==
  /\ fg.state = "payload"
  /\ fg' = IF LastSymbol
             THEN [fg EXCEPT !.state = "load", !.symbol_number = 0, !.sent = [u \in Users |-> 0]]
             ELSE [fg EXCEPT !.symbol_number = @ + 1, !.sent = SentNow]
  /\ short' = IF LastSymbol THEN [u \in Users |-> SentNow[u] < ModLen(fg.lens[u])] ELSE short
  /\ AllReceive("payload")
  /\ UNCHANGED joined

\* The zero symbol that ends a burst, and the noise until the next one.
Silence ==
  /\ fg.state = "load"
  /\ AllReceive("noise")
  /\ UNCHANGED <<fg, joined, short>>

-----------------------------------------------------------------------------
FramingInit ==
  \E d \in Carriers :
    /\ fg = FreshGenerator(d)
    /\ fs = [u \in Users |-> Seeking(d)]
    /\ joined = [u \in Users |-> FALSE]
    /\ short = [u \in Users |-> FALSE]

Write == WritePreamble \/ WriteHeader \/ WritePayload
Load == \E len \in Lens : UpdateData(len)
Recreate == \E d \in Carriers : BaseRecreate(d) \/ \E u \in Users : MobileRecreate(u, d)

FramingNext == Load \/ Write \/ Silence \/ Recreate
FramingSpec == FramingInit /\ [][FramingNext]_framingVars

\* Bursts follow each other for as long as the base runs.
FairFramingSpec == FramingSpec /\ WF_framingVars(Load) /\ WF_framingVars(Write)

-----------------------------------------------------------------------------
Longest == Max({fg.lens[u] : u \in Users})

\* The comment in reconfigure_multi_user: "To make sure we generate enough ofdm
\* symbols to transmit all the data".
AllDataSent == fg.state = "payload" /\ LastSymbol => \A u \in Users : SentNow[u] = ModLen(fg.lens[u])

\* A frame has symbols for every payload as long as the user on record for the
\* largest payload still has one as long as any other.  The record is of the
\* longest payload ever, not of the frame's: once that user's payload is the
\* shorter one, the others' are cut.
CutOnlyByStaleRecord ==
  fg.state = "payload" /\ LastSymbol /\ fg.lens[fg.largest_user] = Longest =>
    \A u \in Users : SentNow[u] = ModLen(fg.lens[u])

\* A mobile that is listening with the base's allocation when a frame begins
\* has its payload, valid, when the frame ends, unless the frame was cut: the
\* header's length, the subcarrier map and the count of symbols agree on both
\* sides whatever the other users' lengths.
JoinedGetsPayload ==
  \A u \in Users : fg.state = "load" /\ joined[u] => fs[u].result = "valid" \/ short[u]

\* A mobile that was cut off, or has another allocation than the base, takes
\* silence and later frames for its payload, but is back to seeking in the end.
Resynchronises ==
  \A u \in Users : fs[u].state # "seek" ~> fs[u].state = "seek"
=============================================================================
