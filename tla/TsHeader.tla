------------------------------ MODULE TsHeader ------------------------------
(***************************************************************************)
(* What sls_parse_ts_info keeps of a publisher's transport stream: the     *)
(* parts it has captured, the stream (pid) it listens to, and ts_data, the *)
(* block of PAT, PMT, SPS and PPS that every player gets first.            *)
(*                                                                         *)
(* A packet is what the parser tells apart: the PAT, which names the pid   *)
(* of the PMT; the PMT; the start of a PES packet of the audio or video    *)
(* pid, with or without a time stamp, with the H.264 parameter sets it     *)
(* holds and whether they fit one packet of ts_data; or another packet,    *)
(* which starts nothing.                                                   *)
(***************************************************************************)
NoPid == "none"

Table(k) == [kind |-> k, nals |-> {}, pts |-> FALSE, fits |-> TRUE]
Pes(k, nals, pts, fits) == [kind |-> k, nals |-> nals, pts |-> pts, fits |-> fits]

Packets ==
    {Table("pat"), Table("pmt"), Table("other")}
      \cup {Pes("audio", {}, pts, TRUE) : pts \in BOOLEAN}
      \cup {Pes("video", nals, pts, TRUE) : nals \in {{}, {"sps"}, {"sps", "pps"}}, pts \in BOOLEAN}
      \cup {Pes("video", {"sps", "pps"}, pts, FALSE) : pts \in BOOLEAN}

(* sls_init_ts_info: ts_data starts as null packets, pat and pmt as the    *)
(* allocator left them.                                                    *)
NoParts == [parts |-> {}, esPid |-> NoPid, data |-> {}]

(* The end of sls_pes2es: ts_data is built from whatever pmt holds; when   *)
(* the parameter sets do not fit, only the tables have been copied.        *)
Built(parts, fits) ==
    {"pat", IF "pmt" \in parts THEN "pmt" ELSE "garbage"}
      \cup (IF fits THEN {"sps", "pps"} ELSE {})

(* Once es_pid is known, other pids are not available. *)
OwnPid(ti, p) == ti.esPid \in {NoPid, p.kind}

(* sls_pes2es with sls_parse_spspps, and the choice of es_pid. *)
ParsePes(ti, p) ==
    LET parts == ti.parts \cup p.nals
        both  == {"sps", "pps"} \subseteq parts
    IN  [parts |-> parts,
         esPid |-> IF p.pts \/ both THEN p.kind ELSE ti.esPid,
         data  |-> IF both /\ "pat" \in parts THEN Built(parts, p.fits) ELSE ti.data]

(* sls_parse_ts_info: a PMT counts once a PAT has named its pid. *)
Parse(ti, p) ==
    CASE p.kind = "pat" -> [ti EXCEPT !.parts = @ \cup {"pat"}]
      [] p.kind = "pmt" /\ "pat" \in ti.parts -> [ti EXCEPT !.parts = @ \cup {"pmt"}]
      [] p.kind \in {"audio", "video"} /\ OwnPid(ti, p) -> ParsePes(ti, p)
      [] OTHER -> ti

SettledByAny(ti) == {"pat", "sps", "pps"} \cap ti.parts # {}

(* check_ts_info's condition to leave ts_info as it is: it names pat_len   *)
(* twice and pmt_len not at all.                                           *)
Settled(ti) == {"pat", "sps", "pps"} \subseteq ti.parts

(* check_ts_info, for one packet. *)
Check(ti, p) == IF Settled(ti) THEN ti ELSE Parse(ti, p)

Whole(ti) == ti.data = {"pat", "pmt", "sps", "pps"}
=============================================================================
