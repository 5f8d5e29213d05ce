---------------------------- MODULE ModuleFields ----------------------------
(***************************************************************************)
(* The settings of the module as the API's getters and setters see them:   *)
(* which values a setter accepts, the bytes it sends, and what a getter    *)
(* makes of the bytes it gets.                                             *)
(*                                                                         *)
(* A value is a sequence of integers, one per member of the structure; the *)
(* radio's is a record. A 64 bit member stands as its two words.           *)
(***************************************************************************)
EXTENDS Integers, Sequences, SequencesExt

CONSTANTS
    ByteMod,            \* 256: the number of values of a byte
    ReadsLeftToRight    \* the order in which the build does the two reads of
                        \* read_uint16 and read_uint32, which C leaves open

ASSUME ByteModAssumption == ByteMod \in Nat /\ ByteMod > 1

\* The code is right only with a compiler that reads from the left.
ASSUME ReadOrderAssumption == ReadsLeftToRight = TRUE

\* ll_config_set and ll_config_get go through these, in this order.
ConfigFields == <<"net_token", "app_token", "rx_mode", "qos">>

\* What the other getters and setters of ll_ifc_symphony.c are about,
NetworkFields ==
    {"state", "tx_state", "rx_state", "app_reg", "net_info", "stats", "dl_band",
     "conn_filter", "time_info", "sync_mode"}

\* those of ll_ifc_no_mac.c,
RadioFields == {"radio", "tx_power", "sync_word", "rssi_scan"}

\* and those of ll_ifc.c.
InterfaceFields ==
    {"firmware_type", "hardware_type", "version", "mac_mode", "antenna",
     "unique_id", "timestamp", "assert_info"}

Fields == ToSet(ConfigFields) \cup NetworkFields \cup RadioFields \cup InterfaceFields

RadioParams == {"sf", "cr", "bw", "freq", "preamble", "header", "crc", "iq"}

\* The widths of a field's members, in bytes. The ten bytes of an application
\* token are opaque and stand as one, and so does the name of a file.
Layout ==
    [net_token |-> <<4>>, app_token |-> <<1>>, rx_mode |-> <<1>>, qos |-> <<1>>,
     mac_mode |-> <<1>>, antenna |-> <<1>>, tx_power |-> <<1>>,
     sync_word |-> <<1>>, conn_filter |-> <<1>>, sync_mode |-> <<1>>,
     rssi_scan |-> <<4, 4, 4, 4>>, app_reg |-> <<1>>, timestamp |-> <<4>>,
     assert_info |-> <<4, 1>>,
     state |-> <<1>>, tx_state |-> <<1>>, rx_state |-> <<1>>,
     unique_id |-> <<4, 4>>, version |-> <<1, 1, 2>>,
     firmware_type |-> <<2, 2>>, hardware_type |-> <<1>>,
     dl_band |-> <<4, 4, 4, 1, 1>>,
     stats |-> <<4, 4, 4, 4, 4, 4, 4, 4, 4, 4>>,
     time_info |-> <<1, 4, 2, 4, 2>>,
     net_info |-> <<4, 4, 1, 4, 4, 2, 1, 1, 1, 4, 4>>]

\* The members that are signed, as <<field, position>>: int8_t, or an enum the
\* byte is cast to through int8_t, and the int16_t of net_info's rssi.
SignedMembers ==
    {<<"tx_power", 1>>, <<"state", 1>>, <<"tx_state", 1>>, <<"rx_state", 1>>,
     <<"net_info", 3>>, <<"net_info", 6>>, <<"net_info", 7>>}

ASSUME LayoutAssumption == DOMAIN Layout = Fields \ {"radio"}

-----------------------------------------------------------------------------
(* Integers as bytes, the most significant first. *)

\* The number of values of so many bytes.
Values[n \in 0 .. 4] == IF n = 0 THEN 1 ELSE ByteMod * Values[n - 1]

\* write_uint8, write_uint16, write_uint32, and the shifts that do the same.
ToBytes(v, n) == [k \in 1 .. n |-> (v \div Values[n - k]) % ByteMod]

\* The reads of the right operand come first: the least significant byte leads.
FromBytesReversed(b) == FoldRight(LAMBDA x, acc : acc * ByteMod + x, b, 0)

\* read_uint8, read_uint16, read_uint32, and the shifts that do the same.
FromBytes(b) ==
    LET read[k \in 0 .. Len(b)] == IF k = 0 THEN 0 ELSE read[k - 1] * ByteMod + b[k]
    IN  IF ReadsLeftToRight THEN read[Len(b)] ELSE FromBytesReversed(b)

\* The cast of an unsigned number of n bytes to the signed type of its width.
Signed(v, n) == IF 2 * v < Values[n] THEN v ELSE v - Values[n]

\* The k-th member of the layout l comes after so many bytes.
Offset(l, k) ==
    LET end[i \in 0 .. Len(l)] == IF i = 0 THEN 0 ELSE end[i - 1] + l[i]
    IN  end[k - 1]

Size(f) == IF f = "radio" THEN 8 ELSE Offset(Layout[f], Len(Layout[f]) + 1)

\* The member of the layout l that the i-th byte belongs to.
MemberAt(l, i) ==
    CHOOSE k \in DOMAIN l : i \in Offset(l, k) + 1 .. Offset(l, k) + l[k]

\* ll_dl_band_cfg_serialize and its like: the members one after the other.
Serialize(f, v) ==
    [i \in 1 .. Size(f) |->
       LET l == Layout[f]
           k == MemberAt(l, i)
       IN  ToBytes(v[k] % Values[l[k]], l[k])[i - Offset(l, k)]]

\* ll_dl_band_cfg_deserialize and its like.
Deserialize(f, b) ==
    [k \in DOMAIN Layout[f] |->
       LET o == Offset(Layout[f], k)
           v == FromBytes(SubSeq(b, o + 1, o + Layout[f][k]))
       IN  IF <<f, k>> \in SignedMembers THEN Signed(v, Layout[f][k]) ELSE v]

-----------------------------------------------------------------------------
(* The radio parameters *)

Bit(b, mask) == mask * ((b \div mask) % 2)

Flag(on, mask) == IF on # 0 THEN mask ELSE 0

\* ll_radio_params_set: the bytes of the parameters F out of p; the others are 0.
PackRadio(F, p) ==
    LET Of(k, v) == IF k \in F THEN v ELSE 0 IN
    <<Of("sf", 16 * ((p.sf - 6) % 8)) + Of("cr", 4 * ((p.cr - 1) % 4))
        + Of("bw", (p.bw % 4)),
      Of("header", Flag(p.header, 1)) + Of("crc", Flag(p.crc, 2))
        + Of("iq", Flag(p.iq, 4))>>
    \o ToBytes(Of("preamble", p.preamble), 2)
    \o ToBytes(Of("freq", p.freq), 4)

\* ll_radio_params_get. The last three are 0 or their bit, not 0 or 1.
UnpackRadio(b) ==
    [sf       |-> (b[1] \div 16) + 6,
     cr       |-> ((b[1] \div 4) % 4) + 1,
     bw       |-> b[1] % 4,
     header   |-> Bit(b[2], 1),
     crc      |-> Bit(b[2], 2),
     iq       |-> Bit(b[2], 4),
     preamble |-> FromBytes(SubSeq(b, 3, 4)),
     freq     |-> FromBytes(SubSeq(b, 5, 8))]

\* A parameter of F is taken from p, another from q.
Merge(F, p, q) == [k \in RadioParams |-> IF k \in F THEN p[k] ELSE q[k]]

\* What of a radio value its reader may rely on: the switches are on or off.
Radio(p) ==
    [p EXCEPT !.header = Flag(@, 1), !.crc = Flag(@, 1), !.iq = Flag(@, 1)]

-----------------------------------------------------------------------------
(* The types of the values, and the parameter checks of the setters *)

\* What the k-th member of the field f may be, by its width and sign.
Member(f, k) ==
    LET n == Values[Layout[f][k]]
    IN  IF <<f, k>> \in SignedMembers
        THEN {i \in Int : -n <= 2 * i /\ 2 * i < n} ELSE 0 .. n - 1

\* The parameters of ll_radio_params_set; five of them are single bytes.
RadioTyped(p) ==
    /\ p \in [RadioParams -> Nat]
    /\ p.preamble < Values[2] /\ p.freq < Values[4]

Typed(f, v) ==
    IF f = "radio" THEN v.flags \subseteq RadioParams /\ RadioTyped(v.params)
    ELSE /\ v \in [DOMAIN Layout[f] -> Int]
         /\ \A k \in DOMAIN Layout[f] : v[k] \in Member(f, k)

RadioAccepts(F, p) ==
    /\ "sf" \in F => p.sf \in 6 .. 12
    /\ "cr" \in F => p.cr \in 1 .. 4
    /\ "bw" \in F => p.bw <= 3

\* NUM_DOWNLINK_MODES and NUM_MACS are 4. The enums of ll_config_set and
\* ll_mac_mode_set are checked as the byte they become, and before they do.
Accepts(f, v) ==
    CASE f = "net_token" -> v[1] # Values[4] - 1
      [] f = "rx_mode"   -> v[1] % ByteMod < 4
      [] f = "qos"       -> v[1] <= 15
      [] f = "mac_mode"  -> v[1] < 4
      [] f = "antenna"   -> v[1] \in {1, 2}
      [] f = "tx_power"  -> v[1] \in -4 .. 26
      [] f = "sync_mode" -> v[1] <= 1
      [] f = "radio"     -> RadioAccepts(v.flags, v.params)
      [] OTHER           -> TRUE

Encode(f, v) == IF f = "radio" THEN PackRadio(v.flags, v.params) ELSE Serialize(f, v)
Decode(f, b) == IF f = "radio" THEN Radio(UnpackRadio(b)) ELSE Deserialize(f, b)
=============================================================================
