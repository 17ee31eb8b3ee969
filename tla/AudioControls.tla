---------------------------- MODULE AudioControls ----------------------------
(***************************************************************************)
(* The control requests of the USB audio programs (mic_demo, spk_demo): a  *)
(* host reads and sets the controls of the function's entities, and builds *)
(* its mixer from the answers.  The USB stack and the host are external.   *)
(* Fields travel as little-endian bytes.                                   *)
(***************************************************************************)
EXTENDS Integers, Sequences

CONSTANTS
    SAMPLE_RATE,    \* CFG_TUD_AUDIO_FUNC_1_SAMPLE_RATE
    N_CHANNELS,     \* CFG_TUD_AUDIO_FUNC_1_N_CHANNELS_TX
    HostData        \* bound: the bytes a host sends with a SET request

VARIABLES
    device,         \* "mic" or "spk"
    mute_state, volume_cur,
    request,        \* the last request
    answer,         \* what it got: bytes, or STALL
    setting         \* ghost: the bytes accepted last for each control

cvars == <<device, mute_state, volume_cur, request, answer, setting>>

Entities == {"input_terminal", "feature_unit", "output_terminal", "clock"}
\* The control selectors of different entities share their numbers.
MUTE == 1
VOLUME == 2
SAM_FREQ == 1
CLK_VALID == 2
CONNECTOR == 2
Kinds == {"CUR", "RANGE"}
STALL == <<>>

volume_min == -90 * 256
volume_max == 0
volume_res == 256

-----------------------------------------------------------------------------
\* A value of two's complement in width bytes, and back (int16_t).
bytes(v, width) == [i \in 1 .. width |-> (v \div 256 ^ (i - 1)) % 256]

\* Planted fault: the volume is taken for an unsigned number.
Bug_int16(b) == b[1] + 256 * b[2]
int16(b) == LET u == b[1] + 256 * b[2] IN IF u < 32768 THEN u ELSE u - 65536

range_block(width, min, max, res) == bytes(1, 2) \o bytes(min, width) \o bytes(max, width) \o bytes(res, width)

terminal_answer(r) ==
    IF device = "mic" /\ r.ctrl = CONNECTOR /\ r.kind = "CUR"
    THEN bytes(N_CHANNELS, 1) \o bytes(0, 4) \o bytes(0, 1) ELSE STALL

feature_answer(r) ==
    CASE r.ctrl = MUTE /\ r.kind = "CUR" -> bytes(IF mute_state THEN 1 ELSE 0, 1)
      [] r.ctrl = VOLUME /\ r.kind = "CUR" -> bytes(volume_cur, 2)
      [] r.ctrl = VOLUME /\ r.kind = "RANGE" -> range_block(2, volume_min, volume_max, volume_res)
      [] OTHER -> STALL

clock_answer(r) ==
    CASE r.ctrl = SAM_FREQ /\ r.kind = "CUR" -> bytes(SAMPLE_RATE, 4)
      [] r.ctrl = SAM_FREQ /\ r.kind = "RANGE" -> range_block(4, SAMPLE_RATE, SAMPLE_RATE, 0)
      [] r.ctrl = CLK_VALID /\ r.kind = "CUR" -> bytes(1, 1)
      [] OTHER -> STALL

\* tud_audio_get_req_entity_cb()
get_req_entity_cb(r) ==
    CASE r.entity = "input_terminal" -> terminal_answer(r)
      [] r.entity = "feature_unit" -> feature_answer(r)
      [] r.entity = "clock" -> clock_answer(r)
      [] OTHER -> STALL

-----------------------------------------------------------------------------
Request == [entity : Entities, ctrl : 1 .. 3, kind : Kinds]

Get ==
    /\ request' \in Request
    /\ answer' = get_req_entity_cb(request')
    /\ UNCHANGED <<device, mute_state, volume_cur, setting>>

\* tud_audio_set_req_entity_cb(): the request kind is not looked at, and the
\* clock has no control to set.
accepts(r) == r.entity = "feature_unit" /\ r.ctrl \in {MUTE, VOLUME}

Set ==
    /\ request' \in Request
    /\ \E data \in HostData :
          IF accepts(request')
          THEN /\ mute_state' = IF request'.ctrl = MUTE THEN data[1] # 0 ELSE mute_state
               /\ volume_cur' = IF request'.ctrl = VOLUME THEN int16(data) ELSE volume_cur
               /\ setting' = [setting EXCEPT ![request'.ctrl] = data]
               /\ answer' = data
          ELSE answer' = STALL /\ UNCHANGED <<mute_state, volume_cur, setting>>
    /\ UNCHANGED device

Init ==
    /\ device \in {"mic", "spk"}
    /\ mute_state = FALSE /\ volume_cur = 0
    /\ request = [entity |-> "clock", ctrl |-> SAM_FREQ, kind |-> "CUR"]
    /\ answer = STALL
    /\ setting = [c \in {MUTE, VOLUME} |-> <<0, 0>>]

Next == Get \/ Set
Spec == Init /\ [][Next]_cvars

-----------------------------------------------------------------------------
(***************************************************************************)
(* The host's mixer agrees with the device: after any sequence of requests *)
(* a CUR request of the feature unit reads back the bytes that were last   *)
(* accepted for it (as a flag for mute), although the volume is kept as a  *)
(* signed number; what is set for one entity shows at no other whose       *)
(* selector has the same number; and the range block of the volume decodes *)
(* to the limits it was made of.                                           *)
(***************************************************************************)
AnswersMatch ==
    LET fu(c, k) == get_req_entity_cb([entity |-> "feature_unit", ctrl |-> c, kind |-> k])
        clk(c, k) == get_req_entity_cb([entity |-> "clock", ctrl |-> c, kind |-> k])
        range == fu(VOLUME, "RANGE")
    IN  /\ fu(VOLUME, "CUR") = setting[VOLUME]
        /\ fu(MUTE, "CUR") = <<IF setting[MUTE][1] = 0 THEN 0 ELSE 1>>
        /\ -128 * 256 <= volume_cur /\ volume_cur < 128 * 256
        /\ int16(SubSeq(range, 3, 4)) = volume_min /\ int16(SubSeq(range, 5, 6)) = volume_max
        /\ clk(SAM_FREQ, "RANGE") = <<1, 0>> \o clk(SAM_FREQ, "CUR") \o clk(SAM_FREQ, "CUR") \o <<0, 0, 0, 0>>
=============================================================================
