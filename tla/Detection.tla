----------------------------- MODULE Detection -----------------------------
(***************************************************************************)
(* What the classification service makes of an answer of the provider       *)
(* (internal/classify: gemini.go, service.go), and what the publisher reads *)
(* from it (internal/mqttnotify), as operators.                             *)
(*                                                                          *)
(* A reply is a shape and the detections written in it.  A detection is     *)
(* what the provider saw: a category and a label, both free texts, how sure *)
(* it is, and whether it writes that as a fraction, as it is asked to, or   *)
(* in percent.  Confidences are floating point numbers: here a percent is   *)
(* Percent units, as many as one likes, and their rounding is left out.     *)
(***************************************************************************)
EXTENDS Integers, Sequences, FiniteSets

CONSTANTS
  Means,             \* Means[t]: the categories that text t has a keyword of
  Percent,           \* units of one percent
  Threshold,         \* classification.confidence_threshold, in units
  NotifyCategories   \* mqtt.notify_categories: any texts, none of them blank

ASSUME MeansAssumption == \A t \in DOMAIN Means : Means[t] \subseteq {"person", "animal", "vehicle"}
ASSUME PercentAssumption == Percent \in Nat \ {0}
ASSUME ThresholdAssumption == Threshold \in 1..(100 * Percent)

Reply(shape, detections) == [shape |-> shape, detections |-> detections]
Seen(category, label, sure, style) ==
  [category |-> category, label |-> label, sure |-> sure, style |-> style]

-----------------------------------------------------------------------------
(* The provider. *)

\* ClassifyVideo and parseGeminiDetections: what lies between the first { and
\* the last } must be one JSON object.  A list of one detection passes for an
\* object, too, and a refusal in JSON: objects without detections.
Parses(reply) ==
  \/ reply.shape \in {"object", "object in prose", "refusal in JSON"}
  \/ reply.shape = "list" /\ Cardinality(reply.detections) = 1

Parsed(reply) ==
  IF reply.shape \in {"object", "object in prose"} THEN reply.detections ELSE {}

-----------------------------------------------------------------------------
(* normalizeDetections. *)

\* What is written for d, where 100 * Percent is the number 1.
Written(d) == IF d.style = "percent" THEN 100 * d.sure ELSE d.sure

\* Mutant: what is more than 1 is not taken for percents.
ConfidenceAsWritten(d) == Written(d)

\* A confidence above 1 and up to 100 is in percent.  (No division is cut short
\* that a comparison with the threshold could tell.)
Confidence(d) ==
  IF Written(d) > 100 * Percent /\ Written(d) <= 10000 * Percent THEN Written(d) \div 100 ELSE Written(d)

\* d was written in percent, but reads as a fraction.
ReadAsFraction(d) == d.style = "percent" /\ d.sure <= Percent

\* normalizeCategory: the first category, in normalizeCategoryOrder, with a
\* keyword in either text.
CategoryOf(d) ==
  LET named == Means[d.category] \cup Means[d.label]
  IN  IF "person" \in named THEN "person"
      ELSE IF "animal" \in named THEN "animal"
      ELSE IF "vehicle" \in named THEN "vehicle"
      ELSE ""

Counts(d) == Confidence(d) >= Threshold /\ CategoryOf(d) # ""

\* The categories of the detections that are kept, and so HasPerson, HasAnimal
\* and HasVehicle of the sidecar.
Kept(reply) == {CategoryOf(d) : d \in {e \in Parsed(reply) : Counts(e)}}

-----------------------------------------------------------------------------
(* The publisher. *)

ShouldNotify(kept) == kept \cap NotifyCategories # {}

\* eventType: the categories in order; the empty sequence is "none".
EventType(kept) ==
  LET part(c) == IF c \in kept THEN <<c>> ELSE <<>>
  IN  part("person") \o part("animal") \o part("vehicle")

\* event_types of the discovery documents.
EventTypes ==
  {<<"person">>, <<"animal">>, <<"vehicle">>, <<"person", "animal">>, <<"person", "vehicle">>,
   <<"animal", "vehicle">>, <<"person", "animal", "vehicle">>}
=============================================================================
