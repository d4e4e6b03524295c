------------------------ MODULE OverbridgeSelection ------------------------
(***************************************************************************)
(* Which audio device and stream configuration Overbridge capture uses.    *)
(* The choice is made twice: inspect_provider reports it to clients from   *)
(* an inventory of all devices, and select_overbridge_input makes it again *)
(* to open the stream.  The comments in both places demand that they stay  *)
(* in lockstep.                                                            *)
(*                                                                         *)
(* A device is a record of whether its name matches, whether its           *)
(* configurations can be read, and the sequence of these.  Sample rates    *)
(* are numbers on a small scale.                                           *)
(***************************************************************************)
EXTENDS Integers, SequencesExt

CONSTANTS
  PreferredRate,  \* PREFERRED_SAMPLE_RATE
  Rates,          \* the sample rates devices offer
  Channels,       \* the channel counts devices offer
  Formats         \* the sample formats devices offer

ASSUME SelectionAssumption ==
  /\ Rates \subseteq Nat
  /\ PreferredRate \in Nat

Unavailable == [device |-> 0, configuration |-> 0, rate |-> 0]

Bit(condition) == IF condition THEN 1 ELSE 0

(***************************************************************************)
(* stem_layout: the channel counts that carry stems.                       *)
(***************************************************************************)
HasLayout(channels) == channels \in {10, 12, 18, 20}

RecorderSupports(format) == format \in {"f32", "i16", "u16"}

Usable(c) == HasLayout(c.channels) /\ RecorderSupports(c.format)

SupportsPreferredRate(c) == c.min <= PreferredRate /\ PreferredRate <= c.max

RateOf(c) == IF SupportsPreferredRate(c) THEN PreferredRate ELSE c.max

(***************************************************************************)
(* The first of the usable configurations with the highest score: what a   *)
(* loop leaves that replaces its choice only by a strictly better one.     *)
(***************************************************************************)
FirstBest(configurations, scores) ==
  LET usable == {i \in DOMAIN configurations : Usable(configurations[i])}
  IN  Min({i \in usable : \A j \in usable : scores[j] <= scores[i]})

(***************************************************************************)
(* Bug: the preference for 12 and 20 channels is left out.                 *)
(***************************************************************************)
ConfigurationScoreByRate(c) ==
  Bit(SupportsPreferredRate(c)) * 4 + Bit(c.format = "f32") * 2

(***************************************************************************)
(* configuration_score, for the summary.                                   *)
(***************************************************************************)
ConfigurationScore(c) ==
  Bit(SupportsPreferredRate(c)) * 4 + Bit(c.format = "f32") * 2
    + Bit(c.channels \in {12, 20})

(***************************************************************************)
(* The score in select_overbridge_input, from the rate it would open.      *)
(***************************************************************************)
SelectionScore(c) ==
  Bit(RateOf(c) = PreferredRate) * 4 + Bit(c.format = "f32") * 2
    + Bit(c.channels \in {12, 20})

Choice(d, configurations, scores) ==
  LET i == FirstBest(configurations, scores)
  IN  [device |-> d, configuration |-> i, rate |-> RateOf(configurations[i])]

HasUsable(device) == \E i \in DOMAIN device.configurations : Usable(device.configurations[i])

(***************************************************************************)
(* inspect_provider: the first available candidate; one whose              *)
(* configurations cannot be read is listed as not available.               *)
(***************************************************************************)
SelectedDeviceSummary(devices) ==
  LET d == SelectInSeq(devices, LAMBDA e : e.matches /\ e.readable /\ HasUsable(e))
      found == devices[d].configurations
  IN  IF d = 0 THEN Unavailable
      ELSE Choice(d, found, [i \in DOMAIN found |-> ConfigurationScore(found[i])])

(***************************************************************************)
(* select_overbridge_input: the first matching device with a usable        *)
(* configuration; one that cannot be read ends the search with an error.   *)
(***************************************************************************)
SelectOverbridgeInput(devices) ==
  LET d == SelectInSeq(devices, LAMBDA e : e.matches /\ (~e.readable \/ HasUsable(e)))
      found == devices[d].configurations
  IN  IF d = 0 \/ ~devices[d].readable THEN Unavailable
      ELSE Choice(d, found, [i \in DOMAIN found |-> SelectionScore(found[i])])

-----------------------------------------------------------------------------

Configurations ==
  {c \in [channels: Channels, format: Formats, min: Rates, max: Rates] :
     c.min <= c.max}

(***************************************************************************)
(* What the summary names is what a capture opens, down to the sample rate,*)
(* unless a device that cannot be read stands in front of it: for every    *)
(* two devices, one of which has two configurations.                       *)
(***************************************************************************)
SummaryAgrees ==
  \A first, second \in Configurations, matches, readable \in BOOLEAN :
    LET devices ==
          <<[matches |-> matches, readable |-> readable, configurations |-> <<first>>],
            [matches |-> TRUE, readable |-> TRUE, configurations |-> <<first, second>>]>>
    IN  \/ matches /\ ~readable
        \/ SelectedDeviceSummary(devices) = SelectOverbridgeInput(devices)
=============================================================================
