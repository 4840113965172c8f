------------------------------ MODULE RawStats ------------------------------
(***************************************************************************)
(* test-raw-rps: an AP whose chip schedules restricted access windows       *)
(* (RAW), and the reader of the chip's statistics.  A reading is a flat     *)
(* sequence of records (tag, length, value); this module counts in words    *)
(* of two bytes, so a header and the status the length overstates are two   *)
(* words each.  A wrong walk reads zeros from the wrong place, which is     *)
(* what an engine that never armed looks like.                              *)
(***************************************************************************)
EXTENDS Integers, Sequences, SequencesExt

CONSTANTS RawLen,   \* RAW_STATS_LEN, in words
          MaxTlvs,  \* bound: records in a reading
          Windows,  \* RAW_N_WINDOWS
          MaxArms   \* bound: times the engine arms

ASSUME RawBounds == RawLen \in Nat \ {0} /\ MaxTlvs \in Nat /\ Windows \in Nat /\ MaxArms \in Nat

VARIABLES rawPc,    \* where app_main is
          rawWindow,\* measurement windows done
          rawChip,  \* the chip's assignments[0]
          rawShown, \* what the last report printed: whether it reports, the counter, denominators
          rawTold,  \* history: what the chip put into that reading
          rawSince, \* history: times the engine armed since the window was opened
          rawLog    \* RESULT lines

rawVars == <<rawPc, rawWindow, rawChip, rawShown, rawTold, rawSince, rawLog>>

RAW == 1     \* TAG_RAW, 4210
TxTotal == 2 \* 4133
Hdr == 2     \* STATS_TLV_HDR_LEN: the tag, the length
StatusWord == 2  \* resp->status, counted by hdr.len and not in the buffer

NULL == -1 \* no record

Nothing == [ok |-> FALSE, count |-> 0, tx |-> 0]

-----------------------------------------------------------------------------
(* External: the reading.  The firmware's records, a payload that may end   *)
(* inside one, and the memory behind it.                                    *)

Record == {[tag |-> t, value |-> v] : t \in {RAW, TxTotal},
           v \in UNION {[1 .. n -> {rawChip}] : n \in {0, 1, RawLen, RawLen + 1}}}

Readings ==
    {[records |-> r, cut |-> c, behind |-> b] :
        r \in BoundedSeq(Record, MaxTlvs), c \in 0 .. 2, b \in {<<RAW, RawLen>>, <<0, 0>>}}

Flat(records) == FlattenSeq([i \in DOMAIN records |->
                     <<records[i].tag, Len(records[i].value)>> \o records[i].value])

\* The words that arrived: the last cut words of the records are missing.
Arrived(g) == SubSeq(Flat(g.records), 1, Len(Flat(g.records)) - g.cut)

\* Record i arrived whole, and so did those before it, none of them empty.
Whole(g, i) ==
    /\ Len(Flat(SubSeq(g.records, 1, i))) <= Len(Arrived(g))
    /\ \A j \in 1 .. i : g.records[j].value # <<>>

FirstWhole(g, tag) ==
    {i \in DOMAIN g.records : Whole(g, i) /\ g.records[i].tag = tag
                              /\ \A j \in 1 .. i - 1 : g.records[j].tag # tag}

\* The reference: what a reading tells.
Told(g) ==
    IF \E i \in FirstWhole(g, RAW) : Len(g.records[i].value) = RawLen
    THEN [ok |-> TRUE, count |-> rawChip,
          tx |-> IF FirstWhole(g, TxTotal) # {} THEN rawChip ELSE 0]
    ELSE Nothing

-----------------------------------------------------------------------------
(* The walk.                                                                *)

\* dump_tag_inventory and tlv_find walk on until the room is too small for a header, or a
\* record is empty or does not fit.
Fits(buf, room, off) ==
    off + Hdr <= room /\ buf[off + 2] # 0 /\ off + Hdr + buf[off + 2] <= room

\* Where the first record of the tag begins.
tlv_find(buf, room, tag) ==
    LET from[off \in 0 .. room] ==
            IF ~Fits(buf, room, off) THEN NULL
            ELSE IF buf[off + 1] = tag THEN off
            ELSE from[off + Hdr + buf[off + 2]]
    IN  from[0]

\* Slip: the reported length is walked whole.
MutRoomWhole(reported) == reported

\* The payload is four bytes shorter than the length says.
Room(reported) == IF reported >= StatusWord THEN reported - StatusWord ELSE 0

\* Slip: the length of the RAW record is not checked.
MutReportAnyLength(buf, reported) ==
    LET raw == tlv_find(buf, Room(reported), RAW)
        tx == tlv_find(buf, Room(reported), TxTotal)
    IN  IF raw = NULL THEN Nothing
        ELSE [ok |-> TRUE, count |-> buf[raw + 3], tx |-> IF tx = NULL THEN 0 ELSE buf[tx + 3]]

report_raw_counters(buf, reported) ==
    LET raw == tlv_find(buf, Room(reported), RAW)
        tx == tlv_find(buf, Room(reported), TxTotal)
    IN  IF raw = NULL THEN Nothing
        ELSE IF buf[raw + 2] # RawLen THEN Nothing
        ELSE [ok |-> TRUE, count |-> buf[raw + 3], tx |-> IF tx = NULL THEN 0 ELSE buf[tx + 3]]

-----------------------------------------------------------------------------
RawInit ==
    /\ rawPc = "start" /\ rawWindow = 0 /\ rawChip = 0
    /\ rawShown = Nothing /\ rawTold = Nothing /\ rawSince = 0 /\ rawLog = <<>>

\* The golden bytes are compared first; the result changes nothing that follows.
rps_encoder_selftest ==
    /\ rawPc = "start" /\ rawPc' = "configure"
    /\ UNCHANGED <<rawWindow, rawChip, rawShown, rawTold, rawSince, rawLog>>

\* mmhalow_set_config: without it there are no beacons to capture.
Configure(ok) ==
    /\ rawPc = "configure"
    /\ rawPc' = IF ok THEN "open" ELSE "parked"
    /\ rawLog' = IF ok THEN rawLog ELSE Append(rawLog, "INCONCLUSIVE")
    /\ UNCHANGED <<rawWindow, rawChip, rawShown, rawTold, rawSince>>

\* External: the engine arms on a beacon of ours; the chip restarts and counts from zero.
EngineArms ==
    /\ rawPc \in {"open", "measure"} /\ rawChip < MaxArms /\ rawSince < MaxArms
    /\ rawChip' = rawChip + 1 /\ rawSince' = rawSince + 1
    /\ UNCHANGED <<rawPc, rawWindow, rawShown, rawTold, rawLog>>

ChipRestart ==
    /\ rawPc \in {"open", "measure"} /\ rawChip' = 0
    /\ UNCHANGED <<rawPc, rawWindow, rawShown, rawTold, rawSince, rawLog>>

\* mmwlan_get_morse_stats(core, reset) and the report: the chip may refuse (NULL).
Read(reset) ==
    /\ \/ \E g \in Readings : /\ g.cut <= Len(Flat(g.records))
                              /\ rawTold' = Told(g)
                              /\ rawShown' = report_raw_counters(Arrived(g) \o g.behind,
                                                                 Len(Arrived(g)) + StatusWord)
       \/ rawTold' = Nothing /\ rawShown' = Nothing
    /\ rawChip' = IF reset THEN 0 ELSE rawChip

\* The first report opens the window: it resets the counters and proves the read path.
OpenWindow ==
    /\ rawPc = "open"
    /\ Read(TRUE)
    /\ rawSince' = 0
    /\ IF rawShown'.ok THEN rawPc' = "measure" /\ UNCHANGED rawLog
       ELSE rawPc' = "parked" /\ rawLog' = Append(rawLog, "INCONCLUSIVE")
    /\ UNCHANGED rawWindow

\* The later ones report and go on whether or not they could.
Measure ==
    /\ rawPc = "measure"
    /\ IF rawWindow = Windows
       THEN rawPc' = "parked" /\ UNCHANGED <<rawWindow, rawChip, rawShown, rawTold>>
       ELSE Read(FALSE) /\ rawWindow' = rawWindow + 1 /\ UNCHANGED rawPc
    /\ UNCHANGED <<rawSince, rawLog>>

RawNext == \/ rps_encoder_selftest \/ \E ok \in BOOLEAN : Configure(ok)
           \/ EngineArms \/ ChipRestart \/ OpenWindow \/ Measure

RawSpec == RawInit /\ [][RawNext]_rawVars

-----------------------------------------------------------------------------
(* Properties.                                                              *)

RawTypeOK ==
    /\ rawPc \in {"start", "configure", "open", "measure", "parked"}
    /\ rawWindow \in 0 .. Windows /\ rawChip \in 0 .. MaxArms /\ rawSince \in 0 .. MaxArms
    /\ {rawShown, rawTold} \subseteq [ok : BOOLEAN, count : 0 .. MaxArms, tx : 0 .. MaxArms]
    /\ rawLog \in {<<>>, <<"INCONCLUSIVE">>}

\* The report shows what the chip told and nothing else: a counter comes from a RAW record
\* of the expected length that arrived whole, never from a phantom header behind the payload
\* or from a truncated record, and no absent record is shown as a zero.  A window's counter
\* belongs to the window: it never exceeds what the engine did since it was opened.
RawShownIsTold ==
    /\ rawShown = rawTold
    /\ rawWindow > 0 /\ rawShown.ok => rawShown.count <= rawSince

=============================================================================
