---------------------------- MODULE ScheduleProofs ----------------------------
(***************************************************************************)
(* Proofs about Schedule, for any settings, statuses and options.          *)
(***************************************************************************)
EXTENDS Schedule, TLAPS

PeakOnly       == <<0, "peakOnly">>
Temperature(d) == <<d, "temperature">>

\* The off-peak flag is a flag, wherever it is kept.
Flags ==
  /\ car[PeakOnly] \in {0, 1} /\ vehicle[PeakOnly] \in {0, 1, None}
  /\ options[PeakOnly] \in {0, 1, None} /\ asked[PeakOnly] \in {0, 1, None}

\* What was taken from an up-to-date vehicle is what the car is set to.
FromCar == platform # "gspa" => \A f \in Fields : origin[f] = "car" => options[f] = car[f]

\* A default temperature leaves its mark in the options for both departures,
\* so a second one cannot follow.
Guarded ==
  platform # "gspa" =>
    /\ \A d \in {1, 2} : origin[Temperature(d)] = "default" => options[Temperature(0)] # None
    /\ \E d \in {1, 2} : origin[Temperature(d)] # "default"

\* The options keep what the caller gave, and what is completed from the
\* options for both departures.
Keep ==
  /\ \A n \in Names : asked[n] # None =>
       options[n] \in {asked[n], Normalised(asked[n])} /\ n[1] \in departures \cup {0}
  /\ \A f \in Fields : HasForBoth(f) /\ asked[f] = None /\ asked[ForBoth(f)] # None =>
       options[f] \in {None, Normalised(asked[ForBoth(f)])}

\* The fields of the scopes are ready to be sent.
Filled(scopes) ==
  \A f \in FieldsOf(scopes) :
    options[f] \in Known /\ (Explicit(asked, f) # None => options[f] = Normalised(Explicit(asked, f)))

Sending ==
  /\ pc = "combined" => platform # "ev5" /\ claimed = Scopes /\ (platform # "gspa" => Filled(Scopes))
  /\ pc \in {"charge", "wait", "hvac"} => platform = "ev5" /\ Filled(ActiveScopes)
  /\ pc = "charge" => "charge" \in ActiveScopes
  /\ pc \in {"wait", "hvac"} => "climate" \in ActiveScopes
  /\ pc = "reservation-charge" => platform = "gspa" /\ claimed = {"charge"}
  /\ pc = "reservation-hvac" => platform = "gspa" /\ claimed = {"climate"}
  /\ pc = "start" => platform = "ev5" \/ claimed = Scopes
  /\ outcome = "ok" => pc = "idle"

\* An EV5 call claims and writes only what its caller has asked for.
Claims == platform = "ev5" => ActiveScopes \subseteq claimed /\ wrote \subseteq FieldsOf(claimed)

\* When the climate is sent to an EV5 car, the charge is what was asked for.
ChargeIsDone ==
  pc \in {"wait", "hvac"} =>
    \/ \A f \in ChargeFields : asked[f] = None
    \/ wrote # {} /\ (~ disturbed => \A f \in ChargeFields : Wanted(f) # None => car[f] = Wanted(f))

IInv ==
  /\ TypeOK /\ Flags /\ FromCar /\ Guarded /\ Keep /\ Sending /\ Claims /\ ChargeIsDone
  /\ ExplicitIsWritten

-----------------------------------------------------------------------------
(* The names of the options.                                                *)

LEMMA FieldFacts ==
  /\ Fields = ChargeFields \cup ClimateFields /\ ChargeFields \cap ClimateFields = {}
  /\ \A f \in ChargeFields : /\ f \in Fields /\ f[1] = 0 /\ ~ HasForBoth(f)
                             /\ f[2] # "temperature"
                             /\ f[2] = "peakOnly" <=> f = PeakOnly
  /\ \A f \in ClimateFields : /\ f \in Fields /\ f[1] \in {1, 2} /\ f[2] # "peakOnly"
                              /\ f[2] = "temperature" => f = Temperature(f[1])
  /\ \A f \in Fields : HasForBoth(f) => f \in ClimateFields
<1>1. ASSUME NEW f \in ChargeFields
      PROVE  f[1] = 0 /\ f[2] \in {"charging", "peakOnly", "window"} /\ f = <<f[1], f[2]>>
  BY DEF ChargeFields
<1>2. ASSUME NEW f \in ClimateFields
      PROVE  /\ f[1] \in {1, 2} /\ f[2] \in {"enabled", "when", "climate", "temperature"}
             /\ f = <<f[1], f[2]>>
  BY DEF ClimateFields
<1>3. Fields = ChargeFields \cup ClimateFields
  BY DEF Fields
<1>4. ChargeFields \cap ClimateFields = {}
  BY <1>1, <1>2
<1>5. ASSUME NEW f \in ChargeFields
      PROVE  /\ ~ HasForBoth(f) /\ f[2] # "temperature"
             /\ f[2] = "peakOnly" <=> f = PeakOnly
  BY <1>1, <1>4, <1>5 DEF HasForBoth, PeakOnly
<1> QED
  BY <1>1, <1>2, <1>3, <1>4, <1>5 DEF HasForBoth, Temperature

LEMMA NameFacts ==
  /\ Fields \subseteq Names
  /\ \A n \in Names : n[1] \in {0, 1, 2} /\ (n \notin Fields => n[1] = 0 /\ n \notin ChargeFields)
  /\ PeakOnly \in ChargeFields /\ <<0, "charging">> \in ChargeFields
  /\ \A d \in {1, 2} : /\ Temperature(d) \in ClimateFields /\ HasForBoth(Temperature(d))
                       /\ ForBoth(Temperature(d)) = Temperature(0)
  /\ Temperature(0) \in Names \ Fields
  /\ \A f \in Fields : HasForBoth(f) => ForBoth(f) \in Names \ Fields
<1> DEFINE Both == {0} \X {"climate", "temperature"}
<1>1. ASSUME NEW n \in Both
      PROVE  n \notin Fields /\ n[1] = 0 /\ n \in {<<0, "climate">>, <<0, "temperature">>}
  <2>1. n[1] = 0 /\ n[2] \in {"climate", "temperature"} /\ n = <<n[1], n[2]>>
    BY DEF Both
  <2>2. n \notin ChargeFields /\ n \notin ClimateFields
    BY <2>1 DEF ChargeFields, ClimateFields
  <2> QED
    BY <2>1, <2>2 DEF Fields
<1>2. Names = Fields \cup Both
  BY DEF Names
<1>3. <<0, "temperature">> \in Both /\ <<0, "climate">> \in Both
  OBVIOUS
<1>4. PeakOnly \in ChargeFields /\ <<0, "charging">> \in ChargeFields
  BY DEF PeakOnly, ChargeFields
<1>5. ASSUME NEW d \in {1, 2}
      PROVE  /\ Temperature(d) \in ClimateFields /\ HasForBoth(Temperature(d))
             /\ ForBoth(Temperature(d)) = Temperature(0)
  BY DEF Temperature, ClimateFields, HasForBoth, ForBoth
<1>6. ASSUME NEW f \in Fields, HasForBoth(f) PROVE ForBoth(f) \in Both
  BY <1>6 DEF HasForBoth, ForBoth
<1> HIDE DEF Both
<1>7. \A n \in Fields : n[1] \in {0, 1, 2}
  BY FieldFacts
<1> QED
  BY <1>1, <1>2, <1>3, <1>4, <1>5, <1>6, <1>7, FieldFacts DEF Temperature

-----------------------------------------------------------------------------
(* Completing the options.                                                  *)

OptionTypes(o) == o \in [Names -> Values \cup {None}]

LEMMA NormalisedFacts ==
  /\ \A v \in Values : Normalised(v) \in Known /\ Normalised(Normalised(v)) = Normalised(v)
  /\ \A v \in Known : Normalised(v) = v /\ v # None
  /\ None \notin Values /\ Normalised(Default) = Default /\ Known \subseteq Values
BY DEF Normalised, Known, Values, NoDays, None, Default

LEMMA ExplicitFacts ==
  ASSUME NEW o, OptionTypes(o), NEW f \in Fields
  PROVE  /\ Explicit(o, f) \in Values \cup {None}
         /\ o[f] # None => Explicit(o, f) = o[f]
         /\ o[f] = None /\ HasForBoth(f) => Explicit(o, f) = o[ForBoth(f)]
         /\ o[f] = None /\ ~ HasForBoth(f) => Explicit(o, f) = None
<1>1. f \in Names /\ (HasForBoth(f) => ForBoth(f) \in Names)
  BY NameFacts
<1> QED
  BY <1>1 DEF OptionTypes, Explicit, Or

LEMMA FillFacts ==
  ASSUME TypeOK, NEW o, OptionTypes(o), NEW f \in Fields
  PROVE  /\ FillField(o, f) \in Known
         /\ Explicit(o, f) # None => FillField(o, f) = Normalised(Explicit(o, f))
         /\ Explicit(o, f) = None /\ vehicle[f] # None => FillField(o, f) = vehicle[f]
<1>1. Explicit(o, f) \in Values \cup {None} /\ vehicle[f] \in Known \cup {None}
  BY ExplicitFacts DEF TypeOK
<1>2. CASE Explicit(o, f) # None
  BY <1>1, <1>2, NormalisedFacts DEF FillField, Or
<1>3. CASE Explicit(o, f) = None /\ vehicle[f] # None
  BY <1>1, <1>3, NormalisedFacts DEF FillField, Or
<1>4. CASE Explicit(o, f) = None /\ vehicle[f] = None
  BY <1>4 DEF FillField, Or, Normalised, Default, Known, None, NoDays
<1> QED
  BY <1>2, <1>3, <1>4

\* Names of a scope, with the options for both departures.
LEMMA ScopeFacts ==
  /\ FieldsOf({"charge"}) = ChargeFields /\ FieldsOf({"climate"}) = ClimateFields
  /\ FieldsOf(Scopes) = Fields /\ FieldsOf({}) = {}
  /\ \A scopes : /\ FieldsOf(scopes) \subseteq Fields
                 /\ "charge" \in scopes => ChargeFields \subseteq FieldsOf(scopes)
                 /\ "climate" \in scopes => ClimateFields \subseteq FieldsOf(scopes)
                 /\ \A f \in FieldsOf(scopes) : \/ "charge" \in scopes /\ f \in ChargeFields
                                                \/ "climate" \in scopes /\ f \in ClimateFields
BY FieldFacts DEF FieldsOf, Scopes

LEMMA FillTypes ==
  ASSUME TypeOK, NEW o, OptionTypes(o), NEW scopes
  PROVE  /\ OptionTypes(Fill(o, scopes))
         /\ \A f \in FieldsOf(scopes) : Fill(o, scopes)[f] = FillField(o, f)
         /\ \A n \in Fields \ FieldsOf(scopes) : Fill(o, scopes)[n] = o[n]
         /\ \A n \in Names \ Fields :
              /\ o[n] # None => Fill(o, scopes)[n] = o[n]
              /\ "climate" \notin scopes => Fill(o, scopes)[n] = o[n]
         /\ "climate" \in scopes => Fill(o, scopes)[Temperature(0)] # None
<1>1. ASSUME NEW n \in Names \ Fields, "climate" \in scopes
      PROVE  FillField(o, <<1, n[2]>>) \in Known
  <2>1. <<1, n[2]>> \in Fields
    BY <1>1 DEF Names, Fields, ClimateFields
  <2> QED
    BY <2>1, FillFacts
<1>2. \A f \in FieldsOf(scopes) : f \in Names /\ f \in Fields /\ FillField(o, f) \in Known
  BY ScopeFacts, NameFacts, FillFacts
<1>3. \A n \in Names : Fill(o, scopes)[n] =
        CASE n \in FieldsOf(scopes) -> FillField(o, n)
          [] n \notin Fields /\ "climate" \in scopes -> Or(o[n], FillField(o, <<1, n[2]>>))
          [] OTHER -> o[n]
  BY DEF Fill
<1>4. ASSUME NEW f \in FieldsOf(scopes) PROVE Fill(o, scopes)[f] = FillField(o, f)
  BY <1>2, <1>3
<1>5. ASSUME NEW n \in Fields \ FieldsOf(scopes) PROVE Fill(o, scopes)[n] = o[n]
  BY <1>3, NameFacts
<1>6. ASSUME NEW n \in Names \ Fields
      PROVE  /\ "climate" \in scopes =>
                  /\ Fill(o, scopes)[n] \in Values
                  /\ o[n] # None => Fill(o, scopes)[n] = o[n]
             /\ "climate" \notin scopes => Fill(o, scopes)[n] = o[n]
  <2>1. n \notin FieldsOf(scopes)
    BY ScopeFacts
  <2>2. o[n] \in Values \cup {None}
    BY DEF OptionTypes
  <2>3. CASE "climate" \in scopes
    <3>1. FillField(o, <<1, n[2]>>) \in Values
      BY <1>1, <2>3, NormalisedFacts
    <3>2. Fill(o, scopes)[n] = Or(o[n], FillField(o, <<1, n[2]>>))
      BY <1>3, <2>1, <2>3
    <3> HIDE DEF FillField
    <3> QED
      BY <2>2, <2>3, <3>1, <3>2 DEF Or
  <2>4. CASE "climate" \notin scopes
    BY <1>3, <2>1, <2>4
  <2> QED
    BY <2>3, <2>4
<1>7. ASSUME NEW n \in Names PROVE Fill(o, scopes)[n] \in Values \cup {None}
  <2>1. o[n] \in Values \cup {None}
    BY DEF OptionTypes
  <2>2. CASE n \in FieldsOf(scopes)
    BY <1>2, <1>4, <2>2, NormalisedFacts
  <2>3. CASE n \in Fields \ FieldsOf(scopes)
    BY <1>5, <2>1, <2>3
  <2>4. CASE n \in Names \ Fields
    BY <1>6, <2>1, <2>4
  <2> QED
    BY <2>2, <2>3, <2>4
<1>8. Fill(o, scopes) = [n \in Names |-> Fill(o, scopes)[n]]
  BY DEF Fill
<1>9. OptionTypes(Fill(o, scopes))
  BY <1>7, <1>8 DEF OptionTypes
<1>10. "climate" \in scopes => Fill(o, scopes)[Temperature(0)] # None
  BY <1>6, NameFacts, NormalisedFacts
<1> QED
  BY <1>4, <1>5, <1>6, <1>9, <1>10

\* What the caller gave is what the completed options say.
LEMMA FillKeeps ==
  ASSUME TypeOK, Keep, NEW f \in Fields, Explicit(asked, f) # None
  PROVE  FillField(options, f) = Normalised(Explicit(asked, f))
<1>0. /\ OptionTypes(options) /\ OptionTypes(asked) /\ f \in Names
      /\ HasForBoth(f) => ForBoth(f) \in Names
      /\ \A n \in Names : /\ asked[n] \in Values \cup {None} /\ options[n] \in Values \cup {None}
                          /\ asked[n] # None => options[n] \in {asked[n], Normalised(asked[n])}
  BY NameFacts DEF TypeOK, OptionTypes, Keep
<1>1. CASE asked[f] # None
  <2>1. /\ Explicit(asked, f) = asked[f] /\ asked[f] \in Values
        /\ options[f] \in {asked[f], Normalised(asked[f])} /\ options[f] # None
    BY <1>0, <1>1, ExplicitFacts, NormalisedFacts
  <2>2. Explicit(options, f) = options[f]
    BY <1>0, <2>1, ExplicitFacts
  <2>3. FillField(options, f) = Normalised(options[f])
    BY <1>0, <2>1, <2>2, FillFacts
  <2> QED
    BY <2>1, <2>3, NormalisedFacts
<1>2. CASE asked[f] = None
  <2>1. HasForBoth(f) /\ Explicit(asked, f) = asked[ForBoth(f)]
    BY <1>0, <1>2, ExplicitFacts
  <2> DEFINE b == asked[ForBoth(f)]
  <2>2. /\ b \in Values /\ b # None
        /\ options[f] \in {None, Normalised(b)}
        /\ options[ForBoth(f)] \in {b, Normalised(b)} /\ options[ForBoth(f)] # None
    BY <1>0, <1>2, <2>1, NormalisedFacts DEF Keep
  <2>3. Explicit(options, f) \in {b, Normalised(b)} /\ Explicit(options, f) # None
    BY <1>0, <2>1, <2>2, ExplicitFacts
  <2>4. FillField(options, f) = Normalised(Explicit(options, f))
    BY <1>0, <2>3, FillFacts
  <2> QED
    BY <2>1, <2>2, <2>3, <2>4, NormalisedFacts
<1> QED
  BY <1>1, <1>2

LEMMA CompleteKeeps ==
  ASSUME IInv, NEW scopes \in SUBSET Scopes, Complete(options, scopes), asked' = asked
  PROVE  /\ OptionTypes(options') /\ departures' \subseteq {1, 2} /\ Keep' /\ Filled(scopes)'
         /\ options'[PeakOnly] \in {0, 1, None}
         /\ scopes \subseteq ActiveScopes => ActiveScopes' = ActiveScopes
<1>0. /\ TypeOK /\ Keep /\ Flags /\ OptionTypes(options) /\ OptionTypes(asked)
      /\ options' = Fill(options, scopes) /\ departures' = FilledDepartures(scopes)
  BY DEF IInv, TypeOK, OptionTypes, Complete
<1>1. /\ OptionTypes(options')
      /\ \A f \in FieldsOf(scopes) : f \in Fields /\ options'[f] = FillField(options, f)
      /\ \A n \in Fields \ FieldsOf(scopes) : options'[n] = options[n]
      /\ \A n \in Names \ Fields :
           /\ options[n] # None => options'[n] = options[n]
           /\ "climate" \notin scopes => options'[n] = options[n]
      /\ "climate" \in scopes => options'[Temperature(0)] # None
  <2> DEFINE new == Fill(options, scopes)
  <2>1. /\ OptionTypes(new)
        /\ \A f \in FieldsOf(scopes) : new[f] = FillField(options, f)
        /\ \A n \in Fields \ FieldsOf(scopes) : new[n] = options[n]
        /\ \A n \in Names \ Fields :
             /\ options[n] # None => new[n] = options[n]
             /\ "climate" \notin scopes => new[n] = options[n]
        /\ "climate" \in scopes => new[Temperature(0)] # None
    BY <1>0, FillTypes
  <2>2. \A f \in FieldsOf(scopes) : f \in Fields
    BY ScopeFacts
  <2>3. options' = new
    BY <1>0
  <2> HIDE DEF new
  <2> QED
    BY <2>1, <2>2, <2>3
<1>2. ASSUME NEW f \in FieldsOf(scopes)
      PROVE  /\ options'[f] \in Known
             /\ Explicit(asked, f) # None => options'[f] = Normalised(Explicit(asked, f))
  BY <1>0, <1>1, FillFacts, FillKeeps
<1>3. Filled(scopes)'
  BY <1>2 DEF Filled, Explicit
<1>4. departures' \subseteq {1, 2} /\ departures \subseteq departures'
  BY <1>0 DEF FilledDepartures, TypeOK
<1>5. ASSUME NEW n \in Names, asked[n] # None
      PROVE  options'[n] \in {asked[n], Normalised(asked[n])} /\ n[1] \in departures' \cup {0}
  <2>1. options[n] \in {asked[n], Normalised(asked[n])} /\ n[1] \in departures \cup {0}
        /\ asked[n] \in Values /\ options[n] # None
    BY <1>0, <1>5, NormalisedFacts DEF Keep, OptionTypes
  <2>2. CASE n \in FieldsOf(scopes)
    <3>1. Explicit(asked, n) = asked[n]
      BY <1>0, <1>1, <1>5, <2>2, ExplicitFacts
    <3> QED
      BY <1>2, <1>4, <1>5, <2>1, <2>2, <3>1
  <2>3. CASE n \notin FieldsOf(scopes)
    BY <1>1, <1>4, <2>1, <2>3
  <2> QED
    BY <2>2, <2>3
<1>6. ASSUME NEW f \in Fields, HasForBoth(f), asked[f] = None, asked[ForBoth(f)] # None
      PROVE  options'[f] \in {None, Normalised(asked[ForBoth(f)])}
  <2>1. CASE f \in FieldsOf(scopes)
    BY <1>0, <1>2, <1>6, <2>1, ExplicitFacts
  <2>2. CASE f \notin FieldsOf(scopes)
    BY <1>0, <1>1, <1>6, <2>2 DEF Keep
  <2> QED
    BY <2>1, <2>2
<1>7. Keep'
  BY <1>5, <1>6 DEF Keep
<1>8. options'[PeakOnly] \in {0, 1, None}
  <2>0. PeakOnly \in Fields /\ ~ HasForBoth(PeakOnly)
    BY NameFacts, FieldFacts
  <2>1. CASE PeakOnly \in FieldsOf(scopes)
    <3>1. options'[PeakOnly] = FillField(options, PeakOnly)
      BY <1>1, <2>1
    <3>2. options[PeakOnly] \in {0, 1, None} /\ vehicle[PeakOnly] \in {0, 1, None}
      BY <1>0 DEF Flags
    <3> QED
      BY <2>0, <3>1, <3>2
         DEF FillField, Explicit, Or, Normalised, Default, NoDays, None
  <2>2. CASE PeakOnly \notin FieldsOf(scopes)
    BY <1>0, <1>1, <2>0, <2>2 DEF Flags
  <2> QED
    BY <2>1, <2>2
<1>9. ASSUME scopes \subseteq ActiveScopes PROVE ActiveScopes' = ActiveScopes
  <2>1. ASSUME NEW f \in ChargeFields
        PROVE  options'[f] # None => "charge" \in ActiveScopes
    <3>1. CASE "charge" \in scopes
      BY <1>9, <3>1
    <3>2. CASE "charge" \notin scopes
      <4>1. f \in Fields \ FieldsOf(scopes)
        BY <3>2, ScopeFacts, FieldFacts
      <4> QED
        BY <1>1, <4>1 DEF ActiveScopes, Scopes
    <3> QED
      BY <3>1, <3>2
  <2>2. "charge" \in ActiveScopes => \E f \in ChargeFields : options'[f] # None
    <3> SUFFICES ASSUME NEW f \in ChargeFields, options[f] # None
                 PROVE  options'[f] # None
      BY DEF ActiveScopes
    <3>1. CASE f \in FieldsOf(scopes)
      BY <1>2, <3>1, NormalisedFacts
    <3>2. CASE f \notin FieldsOf(scopes)
      BY <1>1, <3>2, FieldFacts
    <3> QED
      BY <3>1, <3>2
  <2>3. "climate" \in ActiveScopes =>
          departures' # {} \/ \E n \in Names \ Fields : options'[n] # None
    BY <1>1, <1>4 DEF ActiveScopes
  <2>4. (departures' # {} \/ \E n \in Names \ Fields : options'[n] # None) =>
          "climate" \in ActiveScopes
    <3>1. CASE "climate" \in scopes
      BY <1>9, <3>1
    <3>2. CASE "climate" \notin scopes
      BY <1>0, <1>1, <3>2 DEF FilledDepartures, ActiveScopes, Scopes
    <3> QED
      BY <3>1, <3>2
  <2>5. /\ "charge" \in ActiveScopes <=> \E f \in ChargeFields : options'[f] # None
        /\ "climate" \in ActiveScopes <=>
             departures' # {} \/ \E n \in Names \ Fields : options'[n] # None
    BY <2>1, <2>2, <2>3, <2>4
  <2>6. /\ "charge" \in ActiveScopes' <=> \E f \in ChargeFields : options'[f] # None
        /\ "climate" \in ActiveScopes' <=>
             departures' # {} \/ \E n \in Names \ Fields : options'[n] # None
        /\ ActiveScopes' \subseteq Scopes /\ ActiveScopes \subseteq Scopes
    BY DEF ActiveScopes, Scopes
  <2>7. \A s \in Scopes : s \in ActiveScopes' <=> s \in ActiveScopes
    <3> QED
      BY <2>5, <2>6 DEF Scopes
  <2> QED
    BY <2>6, <2>7
<1> QED
  BY <1>1, <1>3, <1>4, <1>7, <1>8, <1>9

LEMMA OriginsFacts ==
  ASSUME TypeOK, NEW o, OptionTypes(o), NEW scopes, NEW f \in Fields
  PROVE  /\ Origins(o, scopes) \in
              [Fields -> {"none", "caller", "car", "old", "default", "mirror", "preset"}]
         /\ Origins(o, scopes)[f] = origin[f] \/ (f \in FieldsOf(scopes) /\ o[f] = None)
         /\ Origins(o, scopes)[f] # origin[f] /\ Origins(o, scopes)[f] = "car" =>
              /\ vehicle[f] = car[f] /\ vehicle[f] # None
              /\ HasForBoth(f) => o[ForBoth(f)] = None
         /\ Origins(o, scopes)[f] # origin[f] /\ Origins(o, scopes)[f] = "default" =>
              /\ vehicle[f] = None
              /\ HasForBoth(f) => o[ForBoth(f)] = None
<1>1. \A g \in Fields : origin[g] \in {"none", "caller", "car", "old", "default", "mirror", "preset"}
  BY DEF TypeOK
<1>2. ASSUME NEW g \in Fields
      PROVE  Origins(o, scopes)[g] =
               IF g \notin FieldsOf(scopes) \/ o[g] # None THEN origin[g]
               ELSE IF HasForBoth(g) /\ o[ForBoth(g)] # None
                    THEN IF asked[ForBoth(g)] # None THEN "caller" ELSE "mirror"
                    ELSE FromStatus(g, "default")
  BY DEF Origins
<1>3. ASSUME NEW g \in Fields
      PROVE  /\ Origins(o, scopes)[g] \in
                  {"none", "caller", "car", "old", "default", "mirror", "preset"}
             /\ Origins(o, scopes)[g] = origin[g] \/ (g \in FieldsOf(scopes) /\ o[g] = None)
             /\ Origins(o, scopes)[g] # origin[g] /\ Origins(o, scopes)[g] = "car" =>
                  /\ vehicle[g] = car[g] /\ vehicle[g] # None
                  /\ HasForBoth(g) => o[ForBoth(g)] = None
             /\ Origins(o, scopes)[g] # origin[g] /\ Origins(o, scopes)[g] = "default" =>
                  /\ vehicle[g] = None
                  /\ HasForBoth(g) => o[ForBoth(g)] = None
  <2>1. CASE g \notin FieldsOf(scopes) \/ o[g] # None
    BY <1>1, <1>2, <2>1
  <2>2. CASE g \in FieldsOf(scopes) /\ o[g] = None
    <3>1. CASE HasForBoth(g) /\ o[ForBoth(g)] # None
      BY <1>2, <2>2, <3>1
    <3>2. CASE ~ (HasForBoth(g) /\ o[ForBoth(g)] # None)
      BY <1>2, <2>2, <3>2 DEF FromStatus
    <3> QED
      BY <3>1, <3>2
  <2> QED
    BY <2>1, <2>2
<1>4. Origins(o, scopes) = [g \in Fields |-> Origins(o, scopes)[g]]
  BY DEF Origins
<1> HIDE DEF Origins
<1> QED
  BY <1>3, <1>4

LEMMA CompleteOrigins ==
  ASSUME IInv, NEW scopes \in SUBSET Scopes, Complete(options, scopes),
         UNCHANGED <<platform, car, vehicle, asked>>
  PROVE  /\ origin' \in [Fields -> {"none", "caller", "car", "old", "default", "mirror", "preset"}]
         /\ FromCar'
         /\ ("climate" \in scopes => TemperatureKnown) => Guarded'
<1>0. /\ TypeOK /\ FromCar /\ Guarded /\ OptionTypes(options)
      /\ options' = Fill(options, scopes) /\ origin' = Origins(options, scopes)
  BY DEF IInv, TypeOK, OptionTypes, Complete
<1>1. /\ \A f \in FieldsOf(scopes) : f \in Fields /\ options'[f] = FillField(options, f)
      /\ \A n \in Fields \ FieldsOf(scopes) : options'[n] = options[n]
      /\ \A n \in Names \ Fields : options[n] # None => options'[n] = options[n]
      /\ "climate" \in scopes => options'[Temperature(0)] # None
  <2> DEFINE new == Fill(options, scopes)
  <2>1. /\ OptionTypes(new)
        /\ \A f \in FieldsOf(scopes) : new[f] = FillField(options, f)
        /\ \A n \in Fields \ FieldsOf(scopes) : new[n] = options[n]
        /\ \A n \in Names \ Fields :
             /\ options[n] # None => new[n] = options[n]
             /\ "climate" \notin scopes => new[n] = options[n]
        /\ "climate" \in scopes => new[Temperature(0)] # None
    BY <1>0, FillTypes
  <2>2. \A f \in FieldsOf(scopes) : f \in Fields
    BY ScopeFacts
  <2>3. options' = new
    BY <1>0
  <2> HIDE DEF new
  <2> QED
    BY <2>1, <2>2, <2>3
<1>2. ASSUME NEW f \in Fields
      PROVE  /\ origin'[f] = origin[f] \/ (f \in FieldsOf(scopes) /\ options[f] = None)
             /\ origin'[f] # origin[f] /\ origin'[f] = "car" =>
                  /\ vehicle[f] = car[f] /\ vehicle[f] # None
                  /\ HasForBoth(f) => options[ForBoth(f)] = None
             /\ origin'[f] # origin[f] /\ origin'[f] = "default" =>
                  /\ vehicle[f] = None
                  /\ HasForBoth(f) => options[ForBoth(f)] = None
  BY <1>0, OriginsFacts
<1>3. ASSUME platform # "gspa", NEW f \in Fields, origin'[f] = "car"
      PROVE  options'[f] = car[f]
  <2>1. car[f] \in Known
    BY <1>0 DEF TypeOK
  <2>2. CASE f \notin FieldsOf(scopes)
    BY <1>0, <1>1, <1>2, <1>3, <2>2 DEF FromCar
  <2>3. CASE f \in FieldsOf(scopes) /\ origin'[f] = origin[f]
    <3>1. options[f] = car[f] /\ options[f] # None /\ options[f] \in Known
      BY <1>0, <1>3, <2>1, <2>3, NormalisedFacts DEF FromCar
    <3>2. Explicit(options, f) = options[f]
      BY <1>0, <3>1, ExplicitFacts
    <3> QED
      BY <1>0, <1>1, <2>3, <3>1, <3>2, FillFacts, NormalisedFacts
  <2>4. CASE f \in FieldsOf(scopes) /\ origin'[f] # origin[f]
    <3>1. /\ vehicle[f] = car[f] /\ vehicle[f] # None /\ options[f] = None
          /\ HasForBoth(f) => options[ForBoth(f)] = None
      BY <1>2, <1>3, <2>4
    <3>2. Explicit(options, f) = None
      BY <1>0, <3>1, ExplicitFacts
    <3> QED
      BY <1>0, <1>1, <2>4, <3>1, <3>2, FillFacts
  <2> QED
    BY <2>2, <2>3, <2>4
<1>4. ASSUME "climate" \in scopes => TemperatureKnown, platform # "gspa"
      PROVE  /\ \A d \in {1, 2} : origin'[Temperature(d)] = "default" =>
                  options'[Temperature(0)] # None
             /\ \E d \in {1, 2} : origin'[Temperature(d)] # "default"
  <2>1. CASE "climate" \notin scopes
    <3>1. \A d \in {1, 2} : Temperature(d) \in Fields /\ Temperature(d) \notin FieldsOf(scopes)
      BY <2>1, ScopeFacts, NameFacts, FieldFacts
    <3> QED
      BY <1>0, <1>1, <1>2, <1>4, <3>1, NameFacts DEF Guarded
  <2>2. CASE "climate" \in scopes
    <3>0. \A d \in {1, 2} : Temperature(d) \in Fields /\ HasForBoth(Temperature(d))
                            /\ ForBoth(Temperature(d)) = Temperature(0)
      BY NameFacts, FieldFacts
    <3>1. CASE \A d \in {1, 2} : origin'[Temperature(d)] = origin[Temperature(d)]
      BY <1>0, <1>1, <1>4, <2>2, <3>1 DEF Guarded
    <3>2. CASE \E d \in {1, 2} : origin'[Temperature(d)] # origin[Temperature(d)]
                                 /\ origin'[Temperature(d)] = "default"
      <4>1. options[Temperature(0)] = None
        BY <1>2, <3>0, <3>2
      <4>2. \A d \in {1, 2} : origin[Temperature(d)] # "default"
        BY <1>0, <1>4, <4>1 DEF Guarded
      <4>3. PICK d \in {1, 2} : options[Temperature(d)] # None \/ vehicle[Temperature(d)] # None
        BY <1>4, <2>2, <4>1 DEF TemperatureKnown, Temperature
      <4>4. origin'[Temperature(d)] # "default"
        BY <1>2, <3>0, <4>2, <4>3
      <4> QED
        BY <1>1, <2>2, <4>4
    <3>3. CASE \A d \in {1, 2} : origin'[Temperature(d)] = origin[Temperature(d)]
                                 \/ origin'[Temperature(d)] # "default"
      BY <1>0, <1>1, <1>4, <2>2, <3>3 DEF Guarded
    <3> QED
      BY <3>1, <3>2, <3>3
  <2> QED
    BY <2>1, <2>2
<1>5. FromCar'
  BY <1>3 DEF FromCar
<1>6. ("climate" \in scopes => TemperatureKnown) => Guarded'
  BY <1>4 DEF Guarded
<1>7. origin' \in [Fields -> {"none", "caller", "car", "old", "default", "mirror", "preset"}]
  BY <1>0, OriginsFacts, NameFacts, FieldFacts
<1> QED
  BY <1>5, <1>6, <1>7

-----------------------------------------------------------------------------
(* What most steps leave alone.                                             *)

LEMMA OptionsFrame ==
  ASSUME UNCHANGED <<options, departures, asked>>, Keep
  PROVE  /\ Keep' /\ ActiveScopes' = ActiveScopes
         /\ \A scopes \in SUBSET Scopes : Filled(scopes) => Filled(scopes)'
BY DEF Keep, ActiveScopes, Filled, Explicit

\* The parts that speak of the platform, the options and the car alone.
LEMMA CarFrame ==
  ASSUME UNCHANGED <<platform, car, options, origin>>, FromCar, Guarded
  PROVE  FromCar' /\ Guarded'
BY DEF FromCar, Guarded

\* No call is under way: nothing is said of one.
LEMMA NoCall ==
  ASSUME pc' = "idle", outcome' # "ok"
  PROVE  Sending' /\ ChargeIsDone' /\ ExplicitIsWritten'
BY DEF Sending, ChargeIsDone, ExplicitIsWritten

\* A call begins; its fields are still to be completed.
LEMMA CallBegins ==
  ASSUME pc' = "start", outcome' # "ok", platform' = "ev5" \/ claimed' = Scopes
  PROVE  Sending' /\ ChargeIsDone' /\ ExplicitIsWritten'
BY DEF Sending, ChargeIsDone, ExplicitIsWritten

LEMMA ParsedTypes ==
  ASSUME platform \in Platforms, car \in [Fields -> Known], car[PeakOnly] \in {0, 1},
         NEW old \in [Fields -> Known \cup {None}], old[PeakOnly] \in {0, 1, None},
         NEW report \in SUBSET Fields
  PROVE  /\ Parsed(old, report) \in [Fields -> Known \cup {None}]
         /\ Parsed(old, report)[PeakOnly] \in {0, 1, None}
<1>1. /\ platform \in {"type1", "eu", "ccs2", "ev5", "gspa"}
      /\ \A f \in Fields : old[f] \in Known \cup {None} /\ car[f] \in Known
  BY ScheduleAssumption
<1>2. PeakOnly \in Fields /\ PeakOnly[2] = "peakOnly" /\ PeakOnly = <<0, "peakOnly">>
  BY NameFacts, FieldFacts DEF PeakOnly
<1>3. \A f \in Fields : Mode(f) \in Known \cup {None}
  BY <1>1 DEF Mode
<1>4. Mode(PeakOnly) \in {0, 1, None}
  BY <1>1, <1>2 DEF Mode
<1>5. CASE platform = "type1"
  <2>1. Parsed(old, report) = ParsedType1(old, report)
    BY <1>5 DEF Parsed
  <2> QED
    BY <1>1, <1>2, <2>1 DEF ParsedType1
<1>6. CASE platform = "eu"
  <2>1. Parsed(old, report) = ParsedEU(old, report)
    BY <1>6 DEF Parsed
  <2> QED
    BY <1>1, <1>2, <2>1 DEF ParsedEU, Known
<1>7. CASE platform \in {"ccs2", "ev5"}
  <2>1. Parsed(old, report) = ParsedCCS2(old, report)
    BY <1>7 DEF Parsed
  <2>2. 0 \in Known
    BY DEF Known
  <2> HIDE DEF Mode
  <2> QED
    BY <1>1, <1>2, <1>3, <1>4, <2>1, <2>2 DEF ParsedCCS2
<1>8. CASE platform = "gspa"
  <2>1. Parsed(old, report) = ParsedGspa(old, report)
    BY <1>8 DEF Parsed
  <2> QED
    BY <1>1, <1>2, <1>3, <1>4, <2>1 DEF ParsedGspa
<1> QED
  BY <1>1, <1>5, <1>6, <1>7, <1>8

-----------------------------------------------------------------------------
(* The steps.                                                               *)

LEMMA PollStep ==
  ASSUME IInv, NEW report \in Reports, Poll(report)
  PROVE  IInv'
<1>1. /\ TypeOK /\ Flags /\ FromCar /\ Guarded /\ Keep /\ Sending /\ Claims
      /\ UNCHANGED <<platform, car, options, departures, pc, asked, claimed, origin, apps, calls>>
      /\ pc \in {"idle", "start"} /\ vehicle' = Parsed(vehicle, report)
      /\ polls < MaxPolls /\ polls' = polls + 1
      /\ pc = "idle" => again' = FALSE /\ outcome' = "none" /\ wrote' = {} /\ disturbed' = FALSE
      /\ pc # "idle" => UNCHANGED <<again, outcome, wrote, disturbed>>
  BY DEF IInv, Poll, CallIsOver
<1>2. /\ vehicle' \in [Fields -> Known \cup {None}] /\ vehicle'[PeakOnly] \in {0, 1, None}
  BY <1>1, ParsedTypes, ScheduleAssumption DEF TypeOK, Flags
<1>3. TypeOK'
  <2>1. again' \in BOOLEAN /\ outcome' \in {"none", "ok", "refused", "error"}
        /\ wrote' \subseteq Fields /\ disturbed' \in BOOLEAN
    BY <1>1 DEF TypeOK
  <2>2. polls' \in 0..MaxPolls
    BY <1>1, ScheduleAssumption DEF TypeOK
  <2> QED
    BY <1>1, <1>2, <2>1, <2>2 DEF TypeOK
<1>4. Flags'
  BY <1>1, <1>2 DEF Flags
<1>5. FromCar' /\ Guarded' /\ Keep' /\ ActiveScopes' = ActiveScopes
  BY <1>1, CarFrame, OptionsFrame
<1>6. Claims'
  <2>1. CASE pc = "idle"
    BY <1>1, <1>5, <2>1 DEF Claims
  <2>2. CASE pc # "idle"
    BY <1>1, <1>5, <2>2 DEF Claims
  <2> QED
    BY <2>1, <2>2
<1>7. CASE pc = "idle"
  BY <1>1, <1>3, <1>4, <1>5, <1>6, <1>7, NoCall DEF IInv
<1>8. CASE pc = "start"
  <2>1. pc' = "start" /\ outcome' # "ok" /\ (platform' = "ev5" \/ claimed' = Scopes)
    BY <1>1, <1>8 DEF Sending
  <2> QED
    BY <1>3, <1>4, <1>5, <1>6, <2>1, CallBegins DEF IInv
<1> QED
  BY <1>1, <1>7, <1>8

LEMMA NewOptionsStep ==
  ASSUME IInv, NEW r \in Requests, NewOptions(r)
  PROVE  IInv'
<1>1. /\ TypeOK /\ Flags /\ pc = "idle" /\ pc' = "idle" /\ outcome' = "none"
      /\ UNCHANGED <<platform, car, vehicle, again, apps, polls, calls>>
      /\ options' = r.values /\ asked' = r.values /\ departures' = r.departures
      /\ wrote' = {} /\ disturbed' = FALSE
      /\ claimed' = {s \in Scopes :
                       \/ \E n \in Names : /\ r.values[n] # None
                                           /\ (s = "charge") <=> (n \in ChargeFields)
                       \/ s = "climate" /\ r.departures # {}}
      /\ origin' = [f \in Fields |-> Given(r.values, f)]
  BY DEF IInv, NewOptions
<1>2. /\ r.values \in [Names -> Values \cup {None}] /\ r.values[PeakOnly] \in {0, 1, None}
      /\ r.departures \subseteq {1, 2}
      /\ \A n \in Names : r.values[n] # None => n[1] \in r.departures \cup {0}
  BY ScheduleAssumption DEF PeakOnly
<1>3. \A f \in Fields : origin'[f] \in {"none", "caller"}
  BY <1>1 DEF Given
<1>4. TypeOK'
  BY <1>1, <1>2, <1>3 DEF TypeOK
<1>5. Flags'
  BY <1>1, <1>2 DEF Flags
<1>6. FromCar' /\ Guarded'
  BY <1>3, NameFacts, FieldFacts DEF FromCar, Guarded
<1>7. Keep'
  BY <1>1, <1>2, NameFacts DEF Keep
<1>8. Claims'
  <2>1. "charge" \in ActiveScopes' => "charge" \in claimed'
    BY <1>1, NameFacts, FieldFacts DEF ActiveScopes, Scopes
  <2>2. "climate" \in ActiveScopes' => "climate" \in claimed'
    BY <1>1, NameFacts DEF ActiveScopes, Scopes
  <2>3. ActiveScopes' \subseteq {"charge", "climate"}
    BY DEF ActiveScopes, Scopes
  <2> QED
    BY <1>1, <2>1, <2>2, <2>3 DEF Claims
<1> QED
  BY <1>1, <1>4, <1>5, <1>6, <1>7, <1>8, NoCall DEF IInv

LEMMA FromVehicleStep ==
  ASSUME IInv, FromVehicle
  PROVE  IInv'
<1>1. /\ TypeOK /\ Flags /\ pc = "idle" /\ pc' = "idle" /\ outcome' = "none"
      /\ UNCHANGED <<platform, car, vehicle, again, apps, polls, calls>>
      /\ options' = Fill(Unset, Scopes) /\ asked' = Unset /\ departures' = {1, 2}
      /\ wrote' = {} /\ disturbed' = FALSE /\ claimed' = Scopes
      /\ origin' = [f \in Fields |-> FromStatus(f, "preset")]
  BY DEF IInv, FromVehicle
<1>2. /\ OptionTypes(Unset) /\ \A n \in Names : Unset[n] = None
      /\ \A f \in Fields : Explicit(Unset, f) = None
  <2>1. OptionTypes(Unset) /\ \A n \in Names : Unset[n] = None
    BY DEF OptionTypes, Unset
  <2> QED
    BY <2>1, ExplicitFacts, NameFacts
<1>3. /\ OptionTypes(Fill(Unset, Scopes))
      /\ \A f \in FieldsOf(Scopes) : Fill(Unset, Scopes)[f] = FillField(Unset, f)
  BY <1>1, <1>2, FillTypes
<1>4. \A f \in Fields : options'[f] = FillField(Unset, f)
  BY <1>1, <1>3, ScopeFacts
<1>5. \A f \in Fields : /\ origin'[f] \in {"preset", "car", "old"}
                        /\ origin'[f] = "car" => vehicle[f] = car[f] /\ vehicle[f] # None
  BY <1>1 DEF FromStatus
<1>6. TypeOK'
  <2>1. options' \in [Names -> Values \cup {None}] /\ asked' \in [Names -> Values \cup {None}]
    BY <1>1, <1>2, <1>3 DEF OptionTypes
  <2>2. origin' \in [Fields -> {"none", "caller", "car", "old", "default", "mirror", "preset"}]
    BY <1>1, <1>5
  <2>3. wrote' \subseteq Fields /\ claimed' \subseteq Scopes
    BY <1>1
  <2> QED
    BY <1>1, <2>1, <2>2, <2>3 DEF TypeOK
<1>7. Flags'
  <2>1. PeakOnly \in Names /\ PeakOnly \in Fields
    BY NameFacts, FieldFacts
  <2>2. options'[PeakOnly] \in {0, 1, None}
    BY <1>1, <1>2, <1>4, <2>1
       DEF FillField, Or, Flags, Normalised, Default, NoDays, None
  <2> QED
    BY <1>1, <1>2, <2>1, <2>2 DEF Flags
<1>8. FromCar'
  BY <1>1, <1>2, <1>4, <1>5, FillFacts DEF FromCar
<1>9. Guarded'
  BY <1>5, NameFacts, FieldFacts DEF Guarded
<1>10. Keep'
  BY <1>1, <1>2, NameFacts DEF Keep
<1>11. Claims'
  BY <1>1 DEF Claims, ActiveScopes
<1> QED
  BY <1>1, <1>6, <1>7, <1>8, <1>9, <1>10, <1>11, NoCall DEF IInv

LEMMA ReplaceDepartureStep ==
  ASSUME IInv, NEW d \in {1, 2}, ReplaceDeparture(d)
  PROVE  IInv'
<1> DEFINE Replaced(v) == [n \in Names |-> IF n = <<d, "enabled">> THEN 1
                                          ELSE IF n[1] = d THEN None ELSE v[n]]
<1>1. /\ TypeOK /\ Flags /\ FromCar /\ Guarded /\ Keep /\ Claims
      /\ pc = "idle" /\ pc' = "idle" /\ outcome' = "none" /\ departures = {1, 2}
      /\ UNCHANGED <<platform, car, vehicle, departures, again, apps, polls, calls>>
      /\ options' = Replaced(options) /\ asked' = Replaced(asked)
      /\ claimed' = claimed \cup {"climate"} /\ wrote' = {} /\ disturbed' = FALSE
      /\ origin' = [f \in Fields |-> IF f = <<d, "enabled">> THEN "caller"
                                     ELSE IF f[1] = d THEN "none" ELSE origin[f]]
  BY DEF IInv, ReplaceDeparture
<1>2. ASSUME NEW n \in Names
      PROVE  /\ n = <<d, "enabled">> => options'[n] = 1 /\ asked'[n] = 1 /\ n[1] = d
             /\ n # <<d, "enabled">> /\ n[1] = d => options'[n] = None /\ asked'[n] = None
             /\ n # <<d, "enabled">> /\ n[1] # d => options'[n] = options[n] /\ asked'[n] = asked[n]
  BY <1>1
<1>3. ASSUME NEW f \in Fields
      PROVE  /\ f = <<d, "enabled">> => origin'[f] = "caller"
             /\ f # <<d, "enabled">> /\ f[1] = d => origin'[f] = "none"
             /\ f # <<d, "enabled">> /\ f[1] # d => origin'[f] = origin[f]
  BY <1>1
<1>4. TypeOK'
  <2>1. \A n \in Names : options'[n] \in Values \cup {None} /\ asked'[n] \in Values \cup {None}
    <3>1. 1 \in Values
      BY DEF Known, Values
    <3> QED
      BY <1>1, <1>2, <3>1 DEF TypeOK
  <2>2. options' \in [Names -> Values \cup {None}] /\ asked' \in [Names -> Values \cup {None}]
    BY <1>1, <2>1
  <2>3. origin' \in [Fields -> {"none", "caller", "car", "old", "default", "mirror", "preset"}]
    BY <1>1 DEF TypeOK
  <2>4. wrote' \subseteq Fields /\ claimed' \subseteq Scopes
    BY <1>1 DEF TypeOK, Scopes
  <2> QED
    BY <1>1, <2>2, <2>3, <2>4 DEF TypeOK
<1>5. PeakOnly \in Names /\ PeakOnly[1] # d /\ PeakOnly # <<d, "enabled">>
  BY NameFacts, FieldFacts DEF PeakOnly
<1>6. Flags'
  BY <1>1, <1>2, <1>5 DEF Flags
<1>7. FromCar'
  BY <1>1, <1>2, <1>3, NameFacts DEF FromCar
<1>8. Temperature(0) \in Names /\ Temperature(0)[1] # d /\ Temperature(0) # <<d, "enabled">>
  BY NameFacts DEF Temperature
<1>9. \A e \in {1, 2} : /\ Temperature(e) \in Fields /\ Temperature(e)[1] = e
                        /\ Temperature(e) # <<d, "enabled">>
  BY NameFacts, FieldFacts DEF Temperature
<1>10. Guarded'
  <2>1. \A e \in {1, 2} : origin'[Temperature(e)] = "default" =>
          origin[Temperature(e)] = "default"
    BY <1>3, <1>9
  <2>2. options'[Temperature(0)] = options[Temperature(0)]
    BY <1>2, <1>8
  <2>3. origin'[Temperature(d)] # "default"
    BY <1>3, <1>9
  <2> QED
    BY <1>1, <2>1, <2>2, <2>3 DEF Guarded
<1>11. Keep'
  <2>1. \A n \in Names : n[1] \in {0, 1, 2}
    BY NameFacts
  <2>2. ASSUME NEW n \in Names, asked'[n] # None
        PROVE  options'[n] \in {asked'[n], Normalised(asked'[n])} /\ n[1] \in departures' \cup {0}
    BY <1>1, <1>2, <2>1, <2>2 DEF Keep
  <2>3. ASSUME NEW f \in Fields, HasForBoth(f), asked'[f] = None, asked'[ForBoth(f)] # None
        PROVE  options'[f] \in {None, Normalised(asked'[ForBoth(f)])}
    <3>1. /\ f \in Names /\ ForBoth(f) \in Names
          /\ ForBoth(f)[1] # d /\ ForBoth(f) # <<d, "enabled">> /\ f # <<d, "enabled">>
      BY <2>3, NameFacts DEF HasForBoth, ForBoth
    <3>2. asked'[ForBoth(f)] = asked[ForBoth(f)]
      BY <1>2, <3>1
    <3> HIDE DEF Replaced
    <3> QED
      BY <1>1, <1>2, <2>3, <3>1, <3>2 DEF Keep
  <2> QED
    BY <2>2, <2>3 DEF Keep
<1>12. Claims'
  <2>1. \A f \in ChargeFields : f \in Names /\ f[1] # d /\ f # <<d, "enabled">>
    BY NameFacts, FieldFacts
  <2>2. "charge" \in ActiveScopes' => "charge" \in ActiveScopes
    BY <1>2, <2>1 DEF ActiveScopes, Scopes
  <2>3. ActiveScopes' \subseteq {"charge", "climate"}
    BY DEF ActiveScopes, Scopes
  <2> QED
    BY <1>1, <2>2, <2>3 DEF Claims
<1> QED
  BY <1>1, <1>4, <1>6, <1>7, <1>10, <1>11, <1>12, NoCall DEF IInv

LEMMA ScheduleStep ==
  ASSUME IInv, schedule_charging_and_climate
  PROVE  IInv'
<1>1. /\ TypeOK /\ Flags /\ FromCar /\ Guarded /\ Keep /\ Claims
      /\ pc' = "start" /\ outcome' = "none" /\ again' = FALSE
      /\ calls < MaxCalls /\ calls' = calls + 1
      /\ UNCHANGED <<platform, car, vehicle, options, departures, asked, origin, apps, polls>>
      /\ wrote' = {} /\ disturbed' = FALSE
      /\ claimed' = IF platform = "ev5" THEN claimed ELSE Scopes
  BY DEF IInv, schedule_charging_and_climate, Call
<1>2. TypeOK'
  <2>1. calls' \in 0..MaxCalls
    BY <1>1, ScheduleAssumption DEF TypeOK
  <2>2. claimed' \subseteq Scopes
    BY <1>1 DEF TypeOK
  <2> QED
    BY <1>1, <2>1, <2>2 DEF TypeOK
<1>3. Flags'
  BY <1>1 DEF Flags
<1>4. FromCar' /\ Guarded' /\ Keep' /\ ActiveScopes' = ActiveScopes
  BY <1>1, CarFrame, OptionsFrame
<1>5. Claims'
  BY <1>1, <1>4 DEF Claims
<1> QED
  BY <1>1, <1>2, <1>3, <1>4, <1>5, CallBegins DEF IInv

LEMMA StartCombinedStep ==
  ASSUME IInv, StartCombined
  PROVE  IInv'
<1>1. /\ TypeOK /\ Flags /\ FromCar /\ Guarded /\ Keep /\ Sending /\ Claims
      /\ pc = "start" /\ platform \in {"type1", "eu", "ccs2"} /\ claimed = Scopes
      /\ UNCHANGED <<platform, car, vehicle, again, asked, claimed, wrote, disturbed,
                     apps, polls, calls>>
  BY DEF IInv, StartCombined, Start, Refuse, Sending
<1>2. CASE ~ TemperatureKnown
  <2>1. UNCHANGED <<options, departures, origin>> /\ pc' = "idle" /\ outcome' = "refused"
    BY <1>2 DEF StartCombined, Refuse
  <2>2. FromCar' /\ Guarded' /\ Keep'
    BY <1>1, <2>1, CarFrame, OptionsFrame
  <2>3. TypeOK' /\ Flags' /\ Claims'
    BY <1>1, <2>1 DEF TypeOK, Flags, Claims
  <2> QED
    BY <2>1, <2>2, <2>3, NoCall DEF IInv
<1>3. CASE TemperatureKnown
  <2>1. Complete(options, Scopes) /\ pc' = "combined" /\ outcome' = outcome
    BY <1>3 DEF StartCombined, Start
  <2>2. /\ OptionTypes(options') /\ departures' \subseteq {1, 2} /\ Keep' /\ Filled(Scopes)'
        /\ options'[PeakOnly] \in {0, 1, None}
    BY <1>1, <2>1, CompleteKeeps
  <2>3. /\ origin' \in [Fields -> {"none", "caller", "car", "old", "default", "mirror", "preset"}]
        /\ FromCar' /\ Guarded'
    BY <1>1, <1>3, <2>1, CompleteOrigins
  <2>4. TypeOK'
    BY <1>1, <2>1, <2>2, <2>3 DEF TypeOK, OptionTypes
  <2>5. Flags'
    BY <1>1, <2>2 DEF Flags
  <2>6. Claims'
    BY <1>1 DEF Claims
  <2>7. outcome' # "ok"
    BY <1>1, <2>1 DEF Sending
  <2>8. Sending'
    BY <1>1, <2>1, <2>2, <2>7 DEF Sending
  <2>9. ChargeIsDone' /\ ExplicitIsWritten'
    BY <2>1, <2>7 DEF ChargeIsDone, ExplicitIsWritten
  <2> QED
    BY <2>2, <2>3, <2>4, <2>5, <2>6, <2>8, <2>9 DEF IInv
<1> QED
  BY <1>2, <1>3

LEMMA StartFlatStep ==
  ASSUME IInv, StartFlat
  PROVE  IInv'
<1>1. /\ TypeOK /\ Flags /\ FromCar /\ Guarded /\ Keep /\ Sending /\ Claims
      /\ pc = "start" /\ platform = "ev5" /\ outcome # "ok"
      /\ UNCHANGED <<platform, car, vehicle, again, asked, claimed, wrote, disturbed,
                     apps, polls, calls>>
  BY DEF IInv, StartFlat, Start, Refuse, Sending
<1>2. ActiveScopes \in SUBSET Scopes /\ ActiveScopes \ {"climate"} \in SUBSET Scopes
  BY DEF ActiveScopes
<1>3. CASE ActiveScopes = {}
  <2>1. UNCHANGED <<options, departures, origin>> /\ pc' = "idle" /\ outcome' = "refused"
    BY <1>3 DEF StartFlat, Refuse, Guard
  <2>2. FromCar' /\ Guarded' /\ Keep' /\ ActiveScopes' = ActiveScopes
    BY <1>1, <2>1, CarFrame, OptionsFrame
  <2>3. TypeOK' /\ Flags' /\ Claims'
    BY <1>1, <2>1, <2>2 DEF TypeOK, Flags, Claims
  <2> QED
    BY <2>1, <2>2, <2>3, NoCall DEF IInv
<1>4. CASE ActiveScopes # {}
  <2>1. PICK scopes \in SUBSET ActiveScopes :
          /\ Complete(options, scopes)
          /\ "climate" \in scopes => TemperatureKnown
          /\ \/ pc' = "idle" /\ outcome' = "refused"
             \/ /\ scopes = ActiveScopes /\ outcome' = outcome
                /\ pc' = IF "charge" \in ActiveScopes THEN "charge" ELSE "hvac"
    <3>1. CASE ~ Guard
      BY <1>4, <3>1 DEF StartFlat, Refuse
    <3>2. CASE Guard
      BY <1>4, <3>2 DEF StartFlat, Start, Guard
    <3> QED
      BY <3>1, <3>2
  <2>2. scopes \in SUBSET Scopes
    BY <1>2
  <2>3. /\ OptionTypes(options') /\ departures' \subseteq {1, 2} /\ Keep' /\ Filled(scopes)'
        /\ options'[PeakOnly] \in {0, 1, None} /\ ActiveScopes' = ActiveScopes
    BY <1>1, <2>1, <2>2, CompleteKeeps
  <2>4. /\ origin' \in [Fields -> {"none", "caller", "car", "old", "default", "mirror", "preset"}]
        /\ FromCar' /\ Guarded'
    BY <1>1, <2>1, <2>2, CompleteOrigins
  <2>5. TypeOK'
    BY <1>1, <2>1, <2>3, <2>4 DEF TypeOK, OptionTypes
  <2>6. Flags'
    BY <1>1, <2>3 DEF Flags
  <2>7. Claims'
    BY <1>1, <2>3 DEF Claims
  <2>8. CASE pc' = "idle" /\ outcome' = "refused"
    BY <2>3, <2>4, <2>5, <2>6, <2>7, <2>8, NoCall DEF IInv
  <2>9. CASE /\ scopes = ActiveScopes /\ outcome' = outcome
             /\ pc' = IF "charge" \in ActiveScopes THEN "charge" ELSE "hvac"
    <3>1. Filled(ActiveScopes)'
      BY <2>3, <2>9 DEF Filled
    <3>2. "charge" \notin ActiveScopes => "climate" \in ActiveScopes
      BY <1>4 DEF ActiveScopes, Scopes
    <3>3. Sending'
      BY <1>1, <2>3, <2>9, <3>1, <3>2 DEF Sending
    <3>4. "charge" \notin ActiveScopes => \A f \in ChargeFields : asked[f] = None
      <4>1. "charge" \notin ActiveScopes => \A f \in ChargeFields : options[f] = None
        BY DEF ActiveScopes, Scopes
      <4>2. \A f \in ChargeFields : f \in Names /\ asked[f] \in Values \cup {None}
        BY <1>1, NameFacts, FieldFacts DEF TypeOK
      <4> QED
        BY <1>1, <4>1, <4>2, NormalisedFacts DEF Keep
    <3>5. ChargeIsDone'
      BY <1>1, <2>9, <3>4 DEF ChargeIsDone
    <3>6. ExplicitIsWritten'
      BY <1>1, <2>9 DEF ExplicitIsWritten
    <3> QED
      BY <2>3, <2>4, <2>5, <2>6, <2>7, <3>3, <3>5, <3>6 DEF IInv
  <2> QED
    BY <2>1, <2>8, <2>9
<1> QED
  BY <1>3, <1>4

\* What the calls of the European CCI client keep: the caller's options.
LEMMA GspaKeeps ==
  ASSUME Keep, departures \subseteq departures', asked' = asked,
         \A n \in Names : options[n] # None => options'[n] = options[n],
         \A f \in Fields : HasForBoth(f) => options'[f] = options[f],
         \A n \in Names : asked[n] \in Values \cup {None}
  PROVE  Keep'
<1>1. ASSUME NEW n \in Names, asked[n] # None
      PROVE  options'[n] \in {asked[n], Normalised(asked[n])} /\ n[1] \in departures' \cup {0}
  <2>1. /\ options[n] \in {asked[n], Normalised(asked[n])} /\ n[1] \in departures \cup {0}
        /\ options[n] # None
    BY <1>1, NormalisedFacts DEF Keep
  <2> QED
    BY <2>1
<1>2. ASSUME NEW f \in Fields, HasForBoth(f), asked[f] = None, asked[ForBoth(f)] # None
      PROVE  options'[f] \in {None, Normalised(asked[ForBoth(f)])}
  BY <1>2 DEF Keep
<1> QED
  BY <1>1, <1>2 DEF Keep

LEMMA StartGspaStep ==
  ASSUME IInv, StartGspa
  PROVE  IInv'
<1>1. /\ TypeOK /\ Flags /\ Keep /\ Sending
      /\ pc = "start" /\ platform = "gspa" /\ outcome # "ok" /\ claimed = Scopes
      /\ pc' = "combined" /\ departures' = {1, 2} /\ origin' = Origins(options, Scopes)
      /\ UNCHANGED <<platform, car, vehicle, again, outcome, asked, claimed, wrote, disturbed,
                     apps, polls, calls>>
      /\ options' = [n \in Names |->
           IF n = <<0, "charging">> \/ n = <<0, "climate">> \/ HasForBoth(n)
           THEN options[n] ELSE GspaFill(options, n)]
  BY DEF IInv, StartGspa, Start, Sending
<1>2. ASSUME NEW n \in Names
      PROVE  /\ options[n] # None => options'[n] = options[n]
             /\ HasForBoth(n) => options'[n] = options[n]
             /\ options'[n] \in Values \cup {None}
             /\ options[n] = None => options'[n] \in {None, Sunday, Default}
             /\ n[2] # "when" /\ options[n] = None => options'[n] \in {None, Default}
  <2>1. /\ options'[n] \in {options[n], GspaFill(options, n)}
        /\ HasForBoth(n) => options'[n] = options[n]
    BY <1>1
  <2>2. GspaFill(options, n) = IF options[n] # None THEN options[n]
                               ELSE IF n[2] = "when" THEN Sunday ELSE Default
    BY DEF GspaFill, Or
  <2>3. Sunday \in Values /\ Default \in Values
    BY DEF Sunday, Default, Known, Values
  <2>4. options[n] \in Values \cup {None}
    BY <1>1 DEF TypeOK
  <2>5. CASE options[n] # None
    BY <2>1, <2>2, <2>4, <2>5
  <2>6. CASE options[n] = None
    <3>1. GspaFill(options, n) \in {Sunday, Default}
          /\ (n[2] # "when" => GspaFill(options, n) = Default)
      BY <2>2, <2>6
    <3>2. options'[n] \in {None, Sunday, Default} /\ (n[2] # "when" => options'[n] \in {None, Default})
      BY <2>1, <2>6, <3>1
    <3> QED
      BY <2>1, <2>3, <2>6, <3>2
  <2> QED
    BY <2>5, <2>6
<1>3. OptionTypes(options) /\ OptionTypes(options')
  BY <1>1, <1>2 DEF TypeOK, OptionTypes
<1>4. origin' \in [Fields -> {"none", "caller", "car", "old", "default", "mirror", "preset"}]
  BY <1>1, <1>3, OriginsFacts, NameFacts, FieldFacts
<1>5. TypeOK'
  BY <1>1, <1>3, <1>4 DEF TypeOK, OptionTypes
<1>6. Flags'
  <2>1. PeakOnly \in Names /\ PeakOnly[2] # "when"
    BY NameFacts, FieldFacts DEF PeakOnly
  <2>2. options'[PeakOnly] \in {0, 1, None}
    BY <1>1, <1>2, <2>1 DEF Flags, Default
  <2> QED
    BY <1>1, <2>2 DEF Flags
<1>7. Keep'
  <2>1. departures \subseteq departures'
    BY <1>1 DEF TypeOK
  <2>2. \A n \in Names : asked[n] \in Values \cup {None}
    BY <1>1 DEF TypeOK
  <2> QED
    BY <1>1, <1>2, <2>1, <2>2, NameFacts, GspaKeeps
<1>8. FromCar' /\ Guarded' /\ Claims'
  BY <1>1 DEF FromCar, Guarded, Claims
<1>9. Sending'
  BY <1>1 DEF Sending
<1>10. ChargeIsDone' /\ ExplicitIsWritten'
  BY <1>1 DEF ChargeIsDone, ExplicitIsWritten
<1> QED
  BY <1>5, <1>6, <1>7, <1>8, <1>9, <1>10 DEF IInv

LEMMA ReservationStep ==
  ASSUME IInv, schedule_reservation_charge \/ schedule_reservation_hvac
  PROVE  IInv'
<1>1. /\ TypeOK /\ Flags /\ Keep
      /\ platform = "gspa" /\ outcome' = "none" /\ again' = FALSE
      /\ calls < MaxCalls /\ calls' = calls + 1
      /\ UNCHANGED <<platform, car, vehicle, asked, apps, polls>>
      /\ wrote' = {} /\ disturbed' = FALSE
      /\ departures' \in {departures \cup {1}, {1, 2}}
      /\ \E scopes : origin' = Origins(options, scopes)
      /\ \/ pc' = "reservation-charge" /\ claimed' = {"charge"}
         \/ pc' = "reservation-hvac" /\ claimed' = {"climate"}
      /\ options' \in {options,
                       [options EXCEPT ![<<0, "temperature">>] =
                          Or(options[<<0, "temperature">>], Default)]}
  BY DEF IInv, schedule_reservation_charge, schedule_reservation_hvac, Call
<1>2. Temperature(0) = <<0, "temperature">> /\ Temperature(0) \in Names \ Fields
  BY NameFacts DEF Temperature
<1>3. OptionTypes(options) /\ \A n \in Names : asked[n] \in Values \cup {None}
  BY <1>1 DEF TypeOK, OptionTypes
<1>4. /\ OptionTypes(options')
      /\ \A n \in Names : options[n] # None => options'[n] = options[n]
      /\ \A f \in Fields : options'[f] = options[f]
  <2>1. CASE options' = options
    BY <1>3, <2>1
  <2>2. CASE options' = [options EXCEPT ![<<0, "temperature">>] =
                           Or(options[<<0, "temperature">>], Default)]
    <3>1. /\ Or(options[Temperature(0)], Default) \in Values \cup {None}
          /\ options[Temperature(0)] # None =>
               Or(options[Temperature(0)], Default) = options[Temperature(0)]
      BY <1>2, <1>3 DEF Or, OptionTypes, Default, Known, Values
    <3> HIDE DEF Or
    <3> QED
      BY <1>2, <1>3, <2>2, <3>1, NameFacts DEF OptionTypes
  <2> QED
    BY <1>1, <2>1, <2>2
<1>5. origin' \in [Fields -> {"none", "caller", "car", "old", "default", "mirror", "preset"}]
  <2>1. PICK scopes : origin' = Origins(options, scopes)
    BY <1>1
  <2>2. PeakOnly \in Fields
    BY NameFacts, FieldFacts
  <2>3. Origins(options, scopes) \in
          [Fields -> {"none", "caller", "car", "old", "default", "mirror", "preset"}]
    BY <1>1, <1>3, <2>2, OriginsFacts
  <2> QED
    BY <2>1, <2>3
<1>6. TypeOK'
  <2>1. departures' \subseteq {1, 2}
    BY <1>1 DEF TypeOK
  <2>2. calls' \in 0..MaxCalls
    BY <1>1, ScheduleAssumption DEF TypeOK
  <2>3. claimed' \subseteq Scopes
    BY <1>1 DEF Scopes
  <2> QED
    BY <1>1, <1>4, <1>5, <2>1, <2>2, <2>3 DEF TypeOK, OptionTypes
<1>7. Flags'
  BY <1>1, <1>4, NameFacts, FieldFacts DEF Flags
<1>8. Keep'
  <2>1. departures \subseteq departures'
    BY <1>1 DEF TypeOK
  <2> QED
    BY <1>1, <1>3, <1>4, <2>1, GspaKeeps
<1>9. FromCar' /\ Guarded' /\ Claims'
  BY <1>1 DEF FromCar, Guarded, Claims
<1>10. Sending'
  BY <1>1 DEF Sending
<1>11. ChargeIsDone' /\ ExplicitIsWritten'
  BY <1>1 DEF ChargeIsDone, ExplicitIsWritten
<1> QED
  BY <1>6, <1>7, <1>8, <1>9, <1>10, <1>11 DEF IInv

-----------------------------------------------------------------------------
(* What the car makes of a request.                                         *)

\* The off-peak mode keeps its meaning on both kinds of endpoint.
LEMMA FlagFacts ==
  ASSUME NEW f, f[2] = "peakOnly"
  PROVE  /\ Received(f) \in {0, 1}
         /\ platform # "gspa" /\ options[f] \in {0, 1} => Received(f) = options[f]
         /\ platform = "gspa" /\ ~ HasForBoth(f) /\ GspaFill(options, f) \in {0, 1} =>
              \/ Received(f) = GspaFill(options, f)
              \/ pc = "reservation-hvac" /\ options[f] = NoDays
<1>1. Received(f) = CarReadsFlag(pc, Sent(f))
  BY DEF Received
<1>2. Received(f) \in {0, 1}
  BY <1>1 DEF CarReadsFlag
<1>3. ASSUME NEW v \in {0, 1},
             Sent(f) = IF pc = "combined" THEN CombinedFlag(v) ELSE FlatFlag(v)
      PROVE  Received(f) = v
  BY <1>1, <1>3 DEF CarReadsFlag, CombinedFlag, FlatFlag
<1>4. CASE platform # "gspa"
  <2>1. Sent(f) = IF pc = "combined" THEN CombinedFlag(options[f]) ELSE FlatFlag(options[f])
    BY <1>4 DEF Sent
  <2> QED
    BY <1>2, <1>3, <1>4, <2>1
<1>5. CASE platform = "gspa"
  <2>1. ~ HasForBoth(f) /\ ~ (pc = "reservation-hvac" /\ options[f] = NoDays) =>
          Sent(f) = IF pc = "combined" THEN CombinedFlag(GspaFill(options, f))
                    ELSE FlatFlag(GspaFill(options, f))
    BY <1>5 DEF Sent
  <2> QED
    BY <1>2, <1>3, <1>5, <2>1
<1> QED
  BY <1>4, <1>5

LEMMA ClampedFacts ==
  \A v \in Values : /\ Clamped(v) \in Values /\ (Clamped(v) = NoDays <=> v = NoDays)
                    /\ v \in Known => Clamped(v) \in Known
                    /\ Clamped(v) \in {v, Limit}
BY DEF Clamped, Known, Values, NoDays, Cold, Limit

\* All clients but the European CCI one send what the options say.
LEMMA SentFacts ==
  ASSUME platform # "gspa", NEW f, options[f] \in Known,
         f[2] = "peakOnly" => options[f] \in {0, 1}
  PROVE  /\ Received(f) \in Known
         /\ f[2] # "temperature" => Received(f) = options[f]
         /\ f[2] = "temperature" => Received(f) = Clamped(options[f])
<1>1. CASE f[2] = "peakOnly"
  BY <1>1, FlagFacts
<1>2. CASE f[2] = "temperature"
  <2>1. Sent(f) = Clamped(options[f]) /\ Received(f) = Normalised(Sent(f))
    BY <1>2 DEF Sent, Received
  <2> QED
    BY <1>2, <2>1, ClampedFacts, NormalisedFacts
<1>3. CASE f[2] \notin {"peakOnly", "temperature"}
  <2>1. Sent(f) = options[f] /\ Received(f) = Normalised(Sent(f))
    BY <1>3 DEF Sent, Received
  <2> QED
    BY <1>3, <2>1, NormalisedFacts
<1> QED
  BY <1>1, <1>2, <1>3

\* The European CCI client sends what is in the options, or its defaults.
LEMMA GspaSentFacts ==
  ASSUME TypeOK, Flags, platform = "gspa", NEW f \in Fields
  PROVE  /\ Received(f) \in Known /\ (f[2] = "peakOnly" => Received(f) \in {0, 1})
         /\ ~ HasForBoth(f) /\ options[f] \notin {None, NoDays} => Received(f) = options[f]
         /\ HasForBoth(f) /\ options[ForBoth(f)] \notin {None, NoDays} =>
              Received(f) = IF f[2] = "temperature" THEN Clamped(options[ForBoth(f)])
                            ELSE options[ForBoth(f)]
<1> DEFINE v == IF HasForBoth(f) THEN Or(options[ForBoth(f)], Default)
                ELSE IF pc = "reservation-hvac" /\ options[f] = NoDays THEN Sunday
                ELSE GspaFill(options, f)
<1>0. Sunday \in Values /\ Default \in Values
  BY DEF Sunday, Default, Known, Values
<1>1. /\ options[f] \in Values \cup {None}
      /\ HasForBoth(f) => options[ForBoth(f)] \in Values \cup {None}
  BY NameFacts DEF TypeOK
<1>2. /\ v \in Values
      /\ ~ HasForBoth(f) /\ options[f] \notin {None, NoDays} => v = options[f]
      /\ HasForBoth(f) /\ options[ForBoth(f)] \notin {None, NoDays} => v = options[ForBoth(f)]
  <2>1. CASE HasForBoth(f)
    BY <1>0, <1>1, <2>1 DEF Or
  <2>2. CASE ~ HasForBoth(f)
    BY <1>0, <1>1, <2>2 DEF GspaFill, Or
  <2> QED
    BY <2>1, <2>2
<1>3. Sent(f) = CASE f[2] = "temperature" -> Clamped(v)
                  [] f[2] = "peakOnly"    -> IF pc = "combined" THEN CombinedFlag(v) ELSE FlatFlag(v)
                  [] OTHER                -> v
  BY DEF Sent
<1> HIDE DEF v
<1>4. CASE f[2] = "peakOnly"
  <2>1. f = PeakOnly /\ f \in ChargeFields /\ ~ HasForBoth(f)
    BY <1>4, FieldFacts
  <2>2. options[f] \in {0, 1, None}
    BY <2>1 DEF Flags
  <2>3. GspaFill(options, f) \in {0, 1} /\ options[f] # NoDays
        /\ (options[f] # None => GspaFill(options, f) = options[f])
    BY <1>4, <2>2 DEF GspaFill, Or, Default, NoDays, None
  <2> QED
    BY <1>4, <2>1, <2>2, <2>3, FlagFacts DEF Known
<1>5. CASE f[2] = "temperature"
  <2>1. Received(f) = Normalised(Clamped(v)) /\ HasForBoth(f)
    <3>1. HasForBoth(f)
      BY <1>5, FieldFacts DEF HasForBoth
    <3> QED
      BY <1>3, <1>5, <3>1 DEF Received
  <2>2. Clamped(v) \in Values /\ (v # NoDays => Clamped(v) # NoDays)
    BY <1>2, ClampedFacts
  <2>3. v # NoDays => Normalised(Clamped(v)) = Clamped(v)
    BY <2>2 DEF Normalised
  <2> QED
    BY <1>2, <1>5, <2>1, <2>2, <2>3, NormalisedFacts
<1>6. CASE f[2] \notin {"peakOnly", "temperature"}
  <2>1. Received(f) = Normalised(v)
    BY <1>3, <1>6 DEF Received
  <2>2. v # NoDays => Normalised(v) = v
    BY DEF Normalised
  <2> QED
    BY <1>2, <1>6, <2>1, <2>2, NormalisedFacts
<1> QED
  BY <1>4, <1>5, <1>6

\* The times of a climate reservation of that client may be read in two ways.
Readings(f) == {Received(f)} \cup (IF f \in Ambiguous THEN {TwelveHoursOff(Received(f))} ELSE {})

LEMMA AmbiguousFacts ==
  /\ Sending /\ platform # "gspa" => Ambiguous = {}
  /\ \A f \in Ambiguous : f[2] = "when" /\ f # PeakOnly /\ f \notin ChargeFields
  /\ \A v \in Known : TwelveHoursOff(v) \in Known
<1>1. \A v \in Known : TwelveHoursOff(v) \in Known
  BY DEF Known, TwelveHoursOff, HalfDay
<1>2. ASSUME NEW f \in Ambiguous PROVE f[2] = "when" /\ f[1] \in {1, 2}
  BY DEF Ambiguous
<1>3. \A f \in ChargeFields : f[1] = 0
  BY FieldFacts
<1>4. Sending /\ platform # "gspa" => Ambiguous = {}
  BY DEF Sending, Ambiguous
<1> QED
  BY <1>1, <1>2, <1>3, <1>4, NameFacts DEF PeakOnly

\* The fields of a request are ready to be sent.
LEMMA WrittenFacts ==
  ASSUME TypeOK, Sending, NEW f \in FieldsOf(Written)
  PROVE  /\ f \in Fields
         /\ platform # "gspa" =>
              /\ options[f] \in Known
              /\ Explicit(asked, f) # None => options[f] = Normalised(Explicit(asked, f))
<1>1. f \in Fields
  BY ScopeFacts
<1>2. CASE pc = "combined"
  BY <1>1, <1>2 DEF Written, Sending, Filled
<1>3. CASE pc \in {"charge", "hvac"}
  <2>1. Written \subseteq ActiveScopes /\ Filled(ActiveScopes)
    BY <1>3 DEF Written, Sending
  <2>2. f \in FieldsOf(ActiveScopes)
    BY <2>1, ScopeFacts
  <2> QED
    BY <1>1, <2>1, <2>2 DEF Filled
<1>4. CASE pc \in {"reservation-charge", "reservation-hvac"}
  BY <1>1, <1>4 DEF Sending
<1>5. CASE pc \in {"idle", "start", "wait"}
  <2>1. Written = {}
    BY <1>5 DEF Written
  <2> QED
    BY <2>1, ScopeFacts
<1> QED
  BY <1>2, <1>3, <1>4, <1>5 DEF TypeOK

-----------------------------------------------------------------------------
(* The steps of a call.                                                     *)

\* A write leaves the options and what is said of where they are from.
LEMMA WriteKeeps ==
  ASSUME TypeOK, Flags, FromCar, Guarded, Sending, Write(Written),
         UNCHANGED <<platform, options>>
  PROVE  /\ car' \in [Fields -> Known] /\ car'[PeakOnly] \in {0, 1}
         /\ \A f \in Fields : car'[f] \in IF f \in FieldsOf(Written) THEN Readings(f) ELSE {car[f]}
         /\ origin' \in [Fields -> {"none", "caller", "car", "old", "default", "mirror", "preset"}]
         /\ wrote' = wrote \cup FieldsOf(Written) /\ wrote' \subseteq Fields
         /\ FromCar' /\ Guarded'
<1>0. PICK off \in SUBSET Ambiguous :
        car' = [f \in Fields |-> IF f \notin FieldsOf(Written) THEN car[f]
                                 ELSE IF f \in off THEN TwelveHoursOff(Received(f))
                                 ELSE Received(f)]
  BY DEF Write
<1>1. /\ car' = [f \in Fields |-> car'[f]]
      /\ \A f \in Fields : car'[f] \in IF f \in FieldsOf(Written) THEN Readings(f) ELSE {car[f]}
      /\ origin' = [f \in Fields |-> IF origin[f] = "car" /\ car'[f] # car[f] THEN "old"
                                     ELSE origin[f]]
      /\ wrote' = wrote \cup FieldsOf(Written)
  <2>1. car' = [f \in Fields |-> car'[f]]
    BY <1>0
  <2>2. \A f \in Fields : car'[f] \in IF f \in FieldsOf(Written) THEN Readings(f) ELSE {car[f]}
    BY <1>0 DEF Readings
  <2> QED
    BY <2>1, <2>2 DEF Write
<1>2. ASSUME NEW f \in FieldsOf(Written)
      PROVE  Received(f) \in Known /\ (f = PeakOnly => Received(f) \in {0, 1})
  <2>1. f \in Fields /\ (f[2] = "peakOnly" <=> f = PeakOnly)
    BY ScopeFacts, FieldFacts, NameFacts
  <2>2. CASE platform = "gspa"
    BY <2>1, <2>2, GspaSentFacts
  <2>3. CASE platform # "gspa"
    <3>1. options[f] \in Known /\ (f[2] = "peakOnly" => options[f] \in {0, 1})
      <4>1. options[f] \in Known /\ options[f] # None
        BY <2>1, <2>3, WrittenFacts, NormalisedFacts
      <4> QED
        BY <2>1, <4>1 DEF Flags
    <3> QED
      BY <2>1, <2>3, <3>1, SentFacts
  <2> QED
    BY <2>2, <2>3
<1>3. /\ \A f \in Fields : car[f] \in Known
      /\ \A f \in FieldsOf(Written) : Readings(f) \subseteq Known
      /\ Readings(PeakOnly) = {Received(PeakOnly)}
  BY <1>2, AmbiguousFacts DEF TypeOK, Readings
<1>4. /\ \A f \in Fields : car'[f] \in IF f \in FieldsOf(Written) THEN Readings(f) ELSE {car[f]}
      /\ \A f \in Fields : car'[f] \in Known
  BY <1>1, <1>2, <1>3
<1>5. car' \in [Fields -> Known]
  BY <1>1, <1>4
<1>6. car'[PeakOnly] \in {0, 1}
  BY <1>2, <1>3, <1>4, NameFacts, FieldFacts DEF Flags
<1>7. ASSUME NEW f \in Fields
      PROVE  /\ origin'[f] \in {origin[f], "old"}
             /\ origin'[f] = "car" => origin[f] = "car" /\ car'[f] = car[f]
  BY <1>1
<1>8. origin' \in [Fields -> {"none", "caller", "car", "old", "default", "mirror", "preset"}]
  BY <1>1, <1>7 DEF TypeOK
<1>9. FromCar'
  BY <1>7 DEF FromCar
<1>10. Guarded'
  <2>1. \A d \in {1, 2} : Temperature(d) \in Fields
    BY NameFacts, FieldFacts
  <2> QED
    BY <1>7, <2>1 DEF Guarded
<1>11. wrote' \subseteq Fields
  BY <1>1, ScopeFacts DEF TypeOK
<1> QED
  BY <1>1, <1>4, <1>5, <1>6, <1>8, <1>9, <1>10, <1>11

\* What the caller said of a field is what the car gets.
LEMMA WantedIsReceived ==
  ASSUME TypeOK, Flags, Keep, Sending, NEW f \in FieldsOf(Written), Wanted(f) # None
  PROVE  Received(f) = IF f[2] = "temperature" THEN Clamped(Wanted(f)) ELSE Wanted(f)
<1>1. /\ f \in Fields /\ f \in Names /\ OptionTypes(asked) /\ OptionTypes(options)
      /\ f[2] = "peakOnly" <=> f = PeakOnly
      /\ f[2] = "temperature" => HasForBoth(f)
  BY ScopeFacts, NameFacts, FieldFacts DEF TypeOK, OptionTypes, HasForBoth
<1>2. CASE platform # "gspa"
  <2>1. Explicit(asked, f) # None /\ Wanted(f) = Normalised(Explicit(asked, f))
    BY <1>2 DEF Wanted, Normalised, NoDays, None
  <2>2. options[f] = Wanted(f) /\ options[f] \in Known
    BY <1>2, <2>1, WrittenFacts
  <2>3. f[2] = "peakOnly" => options[f] \in {0, 1}
    BY <1>1, <2>2 DEF Flags, None
  <2> QED
    BY <1>2, <2>2, <2>3, SentFacts
<1>3. CASE platform = "gspa" /\ HasForBoth(f)
  <2>1. /\ ForBoth(f) \in Names /\ asked[ForBoth(f)] \notin {None, NoDays}
        /\ Wanted(f) = asked[ForBoth(f)]
    BY <1>1, <1>3, NameFacts DEF Wanted
  <2>2. options[ForBoth(f)] = asked[ForBoth(f)]
    BY <2>1 DEF Keep, Normalised
  <2> QED
    BY <1>1, <1>3, <2>1, <2>2, GspaSentFacts
<1>4. CASE platform = "gspa" /\ ~ HasForBoth(f)
  <2>1. asked[f] \notin {None, NoDays} /\ Wanted(f) = asked[f]
    BY <1>1, <1>4 DEF Wanted, Explicit
  <2>2. options[f] = asked[f]
    BY <1>1, <2>1 DEF Keep, Normalised
  <2> QED
    BY <1>1, <1>4, <2>1, <2>2, GspaSentFacts
<1> QED
  BY <1>2, <1>3, <1>4

LEMMA WantedIsRead ==
  ASSUME TypeOK, Flags, Keep, Sending, NEW f \in FieldsOf(Written), Wanted(f) # None
  PROVE  Readings(f) \subseteq Arrived(f, Wanted(f))
<1>1. Received(f) = IF f[2] = "temperature" THEN Clamped(Wanted(f)) ELSE Wanted(f)
  BY WantedIsReceived
<1>2. CASE f \in Ambiguous
  <2>1. pc = "reservation-hvac" /\ f[2] = "when"
    BY <1>2, AmbiguousFacts DEF Ambiguous
  <2>2. platform = "gspa" /\ claimed = {"climate"}
    BY <2>1 DEF Sending
  <2> QED
    BY <1>1, <2>1, <2>2 DEF Readings, Arrived
<1>3. CASE f \notin Ambiguous
  BY <1>1, <1>3 DEF Readings, Arrived
<1> QED
  BY <1>2, <1>3

\* What is known of an EV5 charge is exact.
LEMMA ArrivedFacts ==
  ASSUME NEW f, NEW v, f \in ChargeFields
  PROVE  Arrived(f, v) = {v}
BY FieldFacts DEF Arrived, ChargeFields

\* What the caller gave makes its scope an active one.
LEMMA WantedIsActive ==
  ASSUME TypeOK, Keep, platform # "gspa", NEW f \in Fields, Wanted(f) # None
  PROVE  /\ f \in ChargeFields => "charge" \in ActiveScopes /\ asked[f] # None
         /\ f \in ClimateFields => "climate" \in ActiveScopes
<1>1. OptionTypes(asked) /\ f \in Names /\ Explicit(asked, f) # None
  BY NameFacts DEF TypeOK, OptionTypes, Wanted, NoDays, None
<1>2. \A n \in Names : asked[n] # None => options[n] # None /\ n[1] \in departures \cup {0}
  <2> SUFFICES ASSUME NEW n \in Names, asked[n] # None
               PROVE  options[n] # None /\ n[1] \in departures \cup {0}
    OBVIOUS
  <2>1. options[n] \in {asked[n], Normalised(asked[n])} /\ n[1] \in departures \cup {0}
    BY DEF Keep
  <2>2. asked[n] \in Values
    BY DEF TypeOK
  <2> QED
    BY <2>1, <2>2, NormalisedFacts
<1>3. CASE f \in ChargeFields
  <2>1. asked[f] # None /\ f \notin ClimateFields
    BY <1>1, <1>3, ExplicitFacts, FieldFacts
  <2> QED
    BY <1>1, <1>2, <1>3, <2>1 DEF ActiveScopes, Scopes
<1>4. CASE f \in ClimateFields
  <2>1. f[1] \in {1, 2} /\ f \notin ChargeFields
    BY <1>4, FieldFacts
  <2>2. CASE asked[f] # None
    BY <1>1, <1>2, <2>1, <2>2 DEF ActiveScopes, Scopes
  <2>3. CASE asked[f] = None
    <3>1. HasForBoth(f) /\ asked[ForBoth(f)] # None
      BY <1>1, <2>3, ExplicitFacts
    <3>2. ForBoth(f) \in Names \ Fields
      BY <3>1, NameFacts
    <3>3. options[ForBoth(f)] # None
      BY <1>2, <3>1, <3>2
    <3> QED
      BY <2>1, <3>2, <3>3 DEF ActiveScopes, Scopes
  <2> QED
    BY <2>2, <2>3
<1> QED
  BY <1>3, <1>4, FieldFacts

LEMMA AcceptedStep ==
  ASSUME IInv, Accepted
  PROVE  IInv'
<1>1. /\ TypeOK /\ Flags /\ FromCar /\ Guarded /\ Keep /\ Sending /\ Claims /\ ChargeIsDone
      /\ Written # {} /\ Write(Written)
      /\ pc' = IF pc = "charge" THEN AfterCharge ELSE "idle"
      /\ outcome' = IF pc' = "idle" THEN "ok" ELSE outcome
      /\ UNCHANGED <<platform, vehicle, options, departures, again, asked, claimed, disturbed,
                     apps, polls, calls>>
  BY DEF IInv, Accepted
<1>2. /\ car' \in [Fields -> Known] /\ car'[PeakOnly] \in {0, 1}
      /\ \A f \in Fields : car'[f] \in IF f \in FieldsOf(Written) THEN Readings(f) ELSE {car[f]}
      /\ origin' \in [Fields -> {"none", "caller", "car", "old", "default", "mirror", "preset"}]
      /\ wrote' = wrote \cup FieldsOf(Written) /\ wrote' \subseteq Fields
      /\ FromCar' /\ Guarded'
  BY <1>1, WriteKeeps
<1>3. Keep' /\ ActiveScopes' = ActiveScopes
  BY <1>1, OptionsFrame
<1>4. pc' \in {"idle", "wait"} /\ (pc' = "wait" => pc = "charge" /\ "climate" \in ActiveScopes)
  BY <1>1 DEF AfterCharge
<1>5. TypeOK'
  <2>1. outcome' \in {"none", "ok", "refused", "error"}
    BY <1>1 DEF TypeOK
  <2> QED
    BY <1>1, <1>2, <1>4, <2>1 DEF TypeOK
<1>6. Flags'
  BY <1>1, <1>2 DEF Flags
<1>7. Claims'
  <2> SUFFICES ASSUME platform = "ev5" PROVE wrote' \subseteq FieldsOf(claimed)
    BY <1>1, <1>3 DEF Claims
  <2>1. Written \subseteq ActiveScopes /\ ActiveScopes \subseteq claimed
    BY <1>1 DEF Written, Sending, Claims
  <2>2. FieldsOf(Written) \subseteq FieldsOf(claimed)
    BY <2>1, ScopeFacts
  <2> QED
    BY <1>1, <1>2, <2>2 DEF Claims
<1>8. Sending'
  <2>1. CASE pc' = "idle"
    BY <2>1 DEF Sending
  <2>2. CASE pc' = "wait"
    <3>1. platform = "ev5" /\ Filled(ActiveScopes) /\ outcome # "ok"
      BY <1>1, <1>4, <2>2 DEF Sending
    <3>2. ActiveScopes \in SUBSET Scopes
      BY DEF ActiveScopes
    <3>3. Filled(ActiveScopes)'
      BY <1>1, <1>3, <3>1 DEF Filled, Explicit
    <3> QED
      BY <1>1, <1>3, <1>4, <2>2, <3>1, <3>3 DEF Sending
  <2> QED
    BY <1>4, <2>1, <2>2
<1>9. \A f \in Fields : (Wanted(f) # None)' <=> Wanted(f) # None
  BY <1>1 DEF Wanted, Explicit
<1>10. \A f : Wanted(f)' = Wanted(f) /\ Arrived(f, Wanted(f))' = Arrived(f, Wanted(f))
  BY <1>1 DEF Wanted, Explicit, Arrived
<1>11. \A f \in FieldsOf(Written) : Wanted(f) # None => car'[f] \in Arrived(f, Wanted(f))
  BY <1>1, <1>2, WantedIsRead, WrittenFacts
<1>12. ChargeIsDone'
  <2> SUFFICES ASSUME pc' \in {"wait", "hvac"}
               PROVE  /\ wrote' # {}
                      /\ \A f \in ChargeFields : Wanted(f) # None => car'[f] = Wanted(f)
    BY <1>10 DEF ChargeIsDone
  <2>1. pc = "charge" /\ Written = {"charge"}
    BY <1>4 DEF Written
  <2>2. FieldsOf(Written) = ChargeFields
    BY <2>1, ScopeFacts
  <2> QED
    BY <1>2, <1>11, <2>2, NameFacts, FieldFacts, ArrivedFacts
<1>13. ExplicitIsWritten'
  <2> SUFFICES ASSUME outcome' = "ok", ~ disturbed, NEW f \in FieldsOf(claimed), Wanted(f) # None
               PROVE  car'[f] \in Arrived(f, Wanted(f))
    BY <1>1, <1>10 DEF ExplicitIsWritten
  <2>1. f \in Fields
    BY ScopeFacts
  <2>2. pc' = "idle"
    BY <1>1, <1>4 DEF Sending
  <2>3. CASE f \in FieldsOf(Written)
    BY <1>11, <2>3
  <2>4. CASE f \notin FieldsOf(Written)
    <3>1. CASE pc \in {"combined", "reservation-charge", "reservation-hvac"}
      <4>1. claimed = Written
        BY <1>1, <3>1 DEF Written, Sending
      <4> QED
        BY <2>4, <4>1
    <3>2. CASE pc = "charge"
      <4>1. platform = "ev5" /\ Written = {"charge"} /\ "climate" \notin ActiveScopes
        BY <1>1, <2>2, <3>2 DEF Sending, Written, AfterCharge
      <4>2. f \in ClimateFields
        BY <2>1, <2>4, <4>1, ScopeFacts, FieldFacts
      <4> QED
        BY <1>1, <2>1, <4>1, <4>2, WantedIsActive
    <3>3. CASE pc = "hvac"
      <4>1. platform = "ev5" /\ Written = {"climate"}
        BY <1>1, <3>3 DEF Sending, Written
      <4>2. f \in ChargeFields /\ f[2] # "temperature"
        BY <2>1, <2>4, <4>1, ScopeFacts, FieldFacts
      <4>3. asked[f] # None
        BY <1>1, <2>1, <4>1, <4>2, WantedIsActive
      <4>4. car[f] = Wanted(f)
        BY <1>1, <3>3, <4>2, <4>3 DEF ChargeIsDone
      <4> QED
        BY <1>2, <2>1, <2>4, <4>2, <4>4, ArrivedFacts
    <3> QED
      BY <1>1, <3>1, <3>2, <3>3 DEF Written
  <2> QED
    BY <2>3, <2>4
<1> QED
  BY <1>2, <1>3, <1>5, <1>6, <1>7, <1>8, <1>12, <1>13 DEF IInv

LEMMA SettledStep ==
  ASSUME IInv, Settled
  PROVE  IInv'
<1>1. /\ TypeOK /\ Flags /\ FromCar /\ Guarded /\ Keep /\ Sending /\ Claims /\ ChargeIsDone
      /\ pc = "wait" /\ pc' = "hvac"
      /\ UNCHANGED <<platform, car, vehicle, options, departures, again, outcome,
                     asked, claimed, origin, wrote, disturbed, apps, polls, calls>>
  BY DEF IInv, Settled, history
<1>2. Keep' /\ ActiveScopes' = ActiveScopes /\ FromCar' /\ Guarded'
  BY <1>1, OptionsFrame, CarFrame
<1>3. TypeOK' /\ Flags' /\ Claims'
  BY <1>1, <1>2 DEF TypeOK, Flags, Claims
<1>4. Filled(ActiveScopes)' /\ outcome' # "ok"
  BY <1>1, <1>2 DEF Filled, Explicit, Sending
<1>5. Sending'
  BY <1>1, <1>2, <1>4 DEF Sending
<1>6. ChargeIsDone'
  BY <1>1 DEF ChargeIsDone, Wanted, Explicit
<1>7. ExplicitIsWritten'
  BY <1>4 DEF ExplicitIsWritten
<1> QED
  BY <1>2, <1>3, <1>5, <1>6, <1>7 DEF IInv

LEMMA FailedStep ==
  ASSUME IInv, Failed
  PROVE  IInv'
<1>1. /\ TypeOK /\ Flags /\ FromCar /\ Guarded /\ Keep /\ Sending /\ Claims
      /\ pc \notin {"idle", "start"} /\ pc' = "idle" /\ outcome' = "error"
      /\ Write(Written) \/ UNCHANGED <<car, origin, wrote>>
      /\ UNCHANGED <<platform, vehicle, options, departures, again, asked, claimed, disturbed,
                     apps, polls, calls>>
  BY DEF IInv, Failed
<1>2. Keep' /\ ActiveScopes' = ActiveScopes
  BY <1>1, OptionsFrame
<1>3. CASE UNCHANGED <<car, origin, wrote>>
  <2>1. FromCar' /\ Guarded'
    BY <1>1, <1>3, CarFrame
  <2>2. TypeOK' /\ Flags' /\ Claims'
    BY <1>1, <1>2, <1>3 DEF TypeOK, Flags, Claims
  <2> QED
    BY <1>1, <1>2, <2>1, <2>2, NoCall DEF IInv
<1>4. CASE Write(Written)
  <2>1. /\ car' \in [Fields -> Known] /\ car'[PeakOnly] \in {0, 1}
        /\ origin' \in [Fields -> {"none", "caller", "car", "old", "default", "mirror", "preset"}]
        /\ wrote' = wrote \cup FieldsOf(Written) /\ wrote' \subseteq Fields
        /\ FromCar' /\ Guarded'
    BY <1>1, <1>4, WriteKeeps
  <2>2. TypeOK'
    BY <1>1, <2>1 DEF TypeOK
  <2>3. Flags'
    BY <1>1, <2>1 DEF Flags
  <2>4. Claims'
    <3> SUFFICES ASSUME platform = "ev5" PROVE wrote' \subseteq FieldsOf(claimed)
      BY <1>1, <1>2 DEF Claims
    <3>1. Written \subseteq ActiveScopes /\ ActiveScopes \subseteq claimed
      BY <1>1 DEF Written, Sending, Claims
    <3>2. FieldsOf(Written) \subseteq FieldsOf(claimed)
      BY <3>1, ScopeFacts
    <3> QED
      BY <1>1, <2>1, <3>2 DEF Claims
  <2> QED
    BY <1>1, <1>2, <2>1, <2>2, <2>3, <2>4, NoCall DEF IInv
<1> QED
  BY <1>1, <1>3, <1>4

LEMMA RunAgainStep ==
  ASSUME IInv, RunAgain
  PROVE  IInv'
<1>1. /\ TypeOK /\ Flags /\ FromCar /\ Guarded /\ Keep /\ Sending /\ Claims
      /\ platform # "gspa" /\ pc \notin {"idle", "start"} /\ again' = TRUE /\ pc' = "start"
      /\ UNCHANGED <<platform, car, vehicle, options, departures, outcome,
                     asked, claimed, origin, wrote, disturbed, apps, polls, calls>>
  BY DEF IInv, RunAgain, history
<1>2. Keep' /\ ActiveScopes' = ActiveScopes /\ FromCar' /\ Guarded'
  BY <1>1, OptionsFrame, CarFrame
<1>3. TypeOK' /\ Flags' /\ Claims'
  BY <1>1, <1>2 DEF TypeOK, Flags, Claims
<1>4. outcome' # "ok" /\ (platform' = "ev5" \/ claimed' = Scopes)
  BY <1>1 DEF Sending, TypeOK
<1> QED
  BY <1>1, <1>2, <1>3, <1>4, CallBegins DEF IInv

LEMMA AppChangesStep ==
  ASSUME IInv, NEW s \in Settings, AppChanges(s)
  PROVE  IInv'
<1>1. /\ TypeOK /\ Flags /\ FromCar /\ Guarded /\ Keep /\ Sending /\ Claims /\ ChargeIsDone
      /\ apps < MaxApps /\ apps' = apps + 1 /\ car' = s
      /\ origin' = [f \in Fields |-> IF origin[f] = "car" /\ s[f] # car[f] THEN "old" ELSE origin[f]]
      /\ pc = "idle" => again' = FALSE /\ outcome' = "none" /\ wrote' = {} /\ disturbed' = FALSE
      /\ pc # "idle" => /\ UNCHANGED <<again, outcome, wrote>>
                        /\ disturbed' = (disturbed \/ wrote # {})
      /\ UNCHANGED <<platform, vehicle, options, departures, pc, asked, claimed, polls, calls>>
  BY DEF IInv, AppChanges, CallIsOver
<1>2. s \in [Fields -> Known] /\ s[PeakOnly] \in {0, 1}
  BY ScheduleAssumption DEF PeakOnly
<1>3. ASSUME NEW f \in Fields
      PROVE  /\ origin'[f] \in {origin[f], "old"}
             /\ origin'[f] = "car" => origin[f] = "car" /\ car'[f] = car[f]
  BY <1>1
<1>4. TypeOK'
  <2>1. origin' \in [Fields -> {"none", "caller", "car", "old", "default", "mirror", "preset"}]
    BY <1>1, <1>3 DEF TypeOK
  <2>2. apps' \in 0..MaxApps
    BY <1>1, ScheduleAssumption DEF TypeOK
  <2>3. again' \in BOOLEAN /\ outcome' \in {"none", "ok", "refused", "error"}
        /\ wrote' \subseteq Fields
    BY <1>1 DEF TypeOK
  <2>4. disturbed' \in BOOLEAN
    <3>1. CASE pc = "idle"
      BY <1>1, <3>1
    <3>2. CASE pc # "idle"
      BY <1>1, <3>2
    <3> QED
      BY <3>1, <3>2
  <2> QED
    BY <1>1, <1>2, <2>1, <2>2, <2>3, <2>4 DEF TypeOK
<1>5. Flags'
  BY <1>1, <1>2 DEF Flags
<1>6. FromCar'
  BY <1>1, <1>3 DEF FromCar
<1>7. Guarded'
  <2>1. \A d \in {1, 2} : Temperature(d) \in Fields
    BY NameFacts, FieldFacts
  <2> QED
    BY <1>1, <1>3, <2>1 DEF Guarded
<1>8. Keep' /\ ActiveScopes' = ActiveScopes
  BY <1>1, OptionsFrame
<1>9. Claims'
  BY <1>1, <1>8 DEF Claims
<1>10. CASE pc = "idle"
  BY <1>1, <1>4, <1>5, <1>6, <1>7, <1>8, <1>9, <1>10, NoCall DEF IInv
<1>11. CASE pc # "idle"
  <2>1. outcome' # "ok"
    BY <1>1, <1>11 DEF Sending
  <2>2. /\ Filled(Scopes) => Filled(Scopes)'
        /\ Filled(ActiveScopes) => Filled(ActiveScopes)'
    BY <1>1, <1>8 DEF Filled, Explicit
  <2>3. Sending'
    BY <1>1, <1>8, <2>1, <2>2 DEF Sending
  <2>4. ExplicitIsWritten'
    BY <2>1 DEF ExplicitIsWritten
  <2>5. ChargeIsDone'
    <3> SUFFICES ASSUME pc \in {"wait", "hvac"}, \E f \in ChargeFields : asked[f] # None
                 PROVE  wrote' # {} /\ disturbed'
      BY <1>1 DEF ChargeIsDone
    <3> QED
      BY <1>1, <1>11 DEF ChargeIsDone
  <2> QED
    BY <1>4, <1>5, <1>6, <1>7, <1>8, <1>9, <2>3, <2>4, <2>5 DEF IInv
<1> QED
  BY <1>10, <1>11

-----------------------------------------------------------------------------
(* The invariant.                                                           *)

LEMMA InitInv == Init => IInv
<1> SUFFICES ASSUME Init PROVE IInv
  OBVIOUS
<1>1. /\ platform \in Platforms /\ car \in Settings
      /\ options = Unset /\ departures = {}
      /\ pc = "idle" /\ again = FALSE /\ outcome = "none"
      /\ asked = Unset /\ claimed = {} /\ origin = NoOrigin
      /\ wrote = {} /\ disturbed = FALSE
      /\ apps = 0 /\ polls = 0 /\ calls = 0
      /\ LET unread == [f \in Fields |-> None]
         IN vehicle \in {unread} \cup {Parsed(unread, r) : r \in Reports}
  BY DEF Init
<1>2. /\ OptionTypes(Unset) /\ \A n \in Names : Unset[n] = None
  BY DEF OptionTypes, Unset
<1>3. car \in [Fields -> Known] /\ car[PeakOnly] \in {0, 1}
  BY <1>1, ScheduleAssumption DEF PeakOnly
<1>4. vehicle \in [Fields -> Known \cup {None}] /\ vehicle[PeakOnly] \in {0, 1, None}
  <2> DEFINE unread == [f \in Fields |-> None]
  <2>1. unread \in [Fields -> Known \cup {None}] /\ unread[PeakOnly] = None
    BY NameFacts, FieldFacts
  <2>2. CASE vehicle = unread
    BY <2>1, <2>2
  <2>3. ASSUME NEW r \in Reports, vehicle = Parsed(unread, r)
        PROVE  vehicle \in [Fields -> Known \cup {None}] /\ vehicle[PeakOnly] \in {0, 1, None}
    <3>1. r \subseteq Fields
      BY <1>1, ScheduleAssumption
    <3> HIDE DEF unread
    <3> QED
      BY <1>1, <1>3, <2>1, <2>3, <3>1, ParsedTypes
  <2> QED
    BY <1>1, <2>2, <2>3
<1>5. TypeOK
  <2>1. origin \in [Fields -> {"none", "caller", "car", "old", "default", "mirror", "preset"}]
    BY <1>1 DEF NoOrigin
  <2>2. 0 \in 0..MaxApps /\ 0 \in 0..MaxPolls /\ 0 \in 0..MaxCalls
    BY ScheduleAssumption
  <2> QED
    BY <1>1, <1>2, <1>3, <1>4, <2>1, <2>2 DEF TypeOK, OptionTypes
<1>6. Flags
  BY <1>1, <1>2, <1>3, <1>4, NameFacts, FieldFacts DEF Flags
<1>7. FromCar /\ Guarded
  BY <1>1, NameFacts, FieldFacts DEF FromCar, Guarded, NoOrigin
<1>8. Keep
  BY <1>1, <1>2, NameFacts DEF Keep
<1>9. Claims
  <2>1. ActiveScopes = {}
    BY <1>1, <1>2, NameFacts, FieldFacts DEF ActiveScopes, Scopes
  <2> QED
    BY <1>1, <2>1 DEF Claims
<1>10. Sending /\ ChargeIsDone /\ ExplicitIsWritten
  BY <1>1 DEF Sending, ChargeIsDone, ExplicitIsWritten
<1> QED
  BY <1>5, <1>6, <1>7, <1>8, <1>9, <1>10 DEF IInv

LEMMA StutterStep ==
  ASSUME IInv, UNCHANGED vars
  PROVE  IInv'
<1>1. /\ TypeOK /\ Flags /\ FromCar /\ Guarded /\ Keep /\ Sending /\ Claims /\ ChargeIsDone
      /\ ExplicitIsWritten
      /\ UNCHANGED <<platform, car, vehicle, options, departures, pc, again, outcome,
                     asked, claimed, origin, wrote, disturbed, apps, polls, calls>>
  BY DEF IInv, vars, callVars, history
<1>2. Keep' /\ ActiveScopes' = ActiveScopes /\ FromCar' /\ Guarded'
  BY <1>1, OptionsFrame, CarFrame
<1>3. TypeOK' /\ Flags' /\ Claims'
  BY <1>1, <1>2 DEF TypeOK, Flags, Claims
<1>4. /\ Filled(Scopes) => Filled(Scopes)'
      /\ Filled(ActiveScopes) => Filled(ActiveScopes)'
  BY <1>1, <1>2 DEF Filled, Explicit
<1>5. Sending'
  BY <1>1, <1>2, <1>4 DEF Sending
<1>6. ChargeIsDone' /\ ExplicitIsWritten'
  BY <1>1 DEF ChargeIsDone, ExplicitIsWritten, Arrived, Wanted, Explicit
<1> QED
  BY <1>2, <1>3, <1>5, <1>6 DEF IInv

LEMMA NextInv == IInv /\ [Next]_vars => IInv'
<1> SUFFICES ASSUME IInv, [Next]_vars PROVE IInv'
  OBVIOUS
<1>1. CASE UNCHANGED vars
  BY <1>1, StutterStep
<1>2. ASSUME NEW report \in Reports, Poll(report) PROVE IInv'
  BY <1>2, PollStep
<1>3. ASSUME NEW r \in Requests, NewOptions(r) PROVE IInv'
  BY <1>3, NewOptionsStep
<1>4. CASE FromVehicle
  BY <1>4, FromVehicleStep
<1>5. ASSUME NEW d \in {1, 2}, ReplaceDeparture(d) PROVE IInv'
  BY <1>5, ReplaceDepartureStep
<1>6. CASE schedule_charging_and_climate
  BY <1>6, ScheduleStep
<1>7. CASE StartCombined
  BY <1>7, StartCombinedStep
<1>8. CASE StartFlat
  BY <1>8, StartFlatStep
<1>9. CASE StartGspa
  BY <1>9, StartGspaStep
<1>10. CASE schedule_reservation_charge \/ schedule_reservation_hvac
  BY <1>10, ReservationStep
<1>11. CASE Accepted
  BY <1>11, AcceptedStep
<1>12. CASE Settled
  BY <1>12, SettledStep
<1>13. CASE Failed
  BY <1>13, FailedStep
<1>14. CASE RunAgain
  BY <1>14, RunAgainStep
<1>15. ASSUME NEW s \in Settings, AppChanges(s) PROVE IInv'
  BY <1>15, AppChangesStep
<1> QED
  BY <1>1, <1>2, <1>3, <1>4, <1>5, <1>6, <1>7, <1>8, <1>9, <1>10, <1>11, <1>12, <1>13, <1>14,
     <1>15 DEF Next

LEMMA Invariant == Spec => []IInv
<1> QED
  BY InitInv, NextInv, PTL DEF Spec

-----------------------------------------------------------------------------

\* The variables of a schedule keep their types, over every client, whatever
\* the car, its statuses and the caller's options.
THEOREM TypeCorrect == Spec => []TypeOK
<1>1. IInv => TypeOK
  BY DEF IInv
<1> QED
  BY <1>1, Invariant, PTL

\* What the caller gave has reached the car when a call returns, with its
\* meaning, over each of the endpoints (ApiImplType1.py, GspaApiEU.py); of the
\* times of a CCI climate reservation, all but AM or PM has.
THEOREM ExplicitIsAlwaysWritten == Spec => []ExplicitIsWritten
<1>1. IInv => ExplicitIsWritten
  BY DEF IInv
<1> QED
  BY <1>1, Invariant, PTL

\* No call to an EV5 car writes a scope of which its caller gave nothing, nor
\* does its second run, which finds the completed options.
THEOREM SilentScopesStay == Spec => []SilentScopeIsUntouched
<1>1. IInv => SilentScopeIsUntouched
  BY DEF IInv, Claims, SilentScopeIsUntouched
<1> QED
  BY <1>1, Invariant, PTL

\* _guard_schedule_temperature keeps the default away from both departures at
\* once, however often the options are completed.
THEOREM DefaultsAreGuarded == Spec => []DefaultIsGuarded
<1>1. IInv => DefaultIsGuarded
  BY DEF IInv, Guarded, DefaultIsGuarded, ClimateWritten, Invented, Temperature
<1> QED
  BY <1>1, Invariant, PTL

LEMMA StartFlatLeavesCar ==
  ASSUME StartFlat
  PROVE  car' = car
<1>1. CASE ActiveScopes = {}
  BY <1>1 DEF StartFlat, Refuse, Guard
<1>2. CASE ActiveScopes # {} /\ ~ Guard
  <2>1. Refuse
    BY <1>2 DEF StartFlat
  <2> QED
    BY <2>1 DEF Refuse
<1>3. CASE ActiveScopes # {} /\ Guard
  <2>1. Start(IF "charge" \in ActiveScopes THEN "charge" ELSE "hvac")
    BY <1>3 DEF StartFlat
  <2> QED
    BY <2>1 DEF Start
<1> QED
  BY <1>1, <1>2, <1>3

LEMMA StepLeavesUnchanged ==
  ASSUME IInv, [Next]_vars, apps' = apps, platform # "gspa", NEW f \in Fields
  PROVE  LeavesUnchanged(f)
<1>1. CASE car' = car
  BY <1>1 DEF LeavesUnchanged
<1>2. CASE Write(Written)
  <2> SUFFICES ASSUME origin[f] = "car", f \in FieldsOf(Written)
               PROVE  car'[f] = car[f] \/ (f[2] = "temperature" /\ car'[f] = Limit)
    BY <1>2 DEF LeavesUnchanged, Write
  <2>1. /\ TypeOK /\ Flags /\ Sending /\ options[f] = car[f]
        /\ car'[f] = Received(f)
    <3>1. Ambiguous = {}
      BY AmbiguousFacts DEF IInv
    <3> QED
      BY <1>2, <3>1 DEF IInv, FromCar, Write
  <2>2. options[f] \in Known /\ (f[2] = "peakOnly" => options[f] \in {0, 1})
    BY <2>1, WrittenFacts, FieldFacts, NameFacts DEF Flags, None
  <2> QED
    BY <2>1, <2>2, SentFacts, ClampedFacts, NormalisedFacts
<1>3. CASE \E s \in Settings : AppChanges(s)
  <2>1. apps \in Nat
    BY ScheduleAssumption DEF IInv, TypeOK
  <2> QED
    BY <1>3, <2>1 DEF AppChanges
<1> QED
  <2>1. UNCHANGED vars \/ Settled \/ RunAgain => car' = car
    BY DEF vars, Settled, RunAgain
  <2>3. ASSUME \/ \E report \in Reports : Poll(report)
               \/ \E r \in Requests : NewOptions(r)
               \/ FromVehicle
               \/ \E d \in {1, 2} : ReplaceDeparture(d)
        PROVE  car' = car
    BY <2>3 DEF Poll, NewOptions, FromVehicle, ReplaceDeparture
  <2>4. ASSUME schedule_charging_and_climate \/ schedule_reservation_charge
               \/ schedule_reservation_hvac
        PROVE  car' = car
    BY <2>4 DEF schedule_charging_and_climate, schedule_reservation_charge,
                schedule_reservation_hvac, Call
  <2>5. StartCombined => car' = car
    BY DEF StartCombined, Start, Refuse
  <2>6. StartFlat => car' = car
    BY StartFlatLeavesCar
  <2>7. StartGspa => car' = car
    BY DEF StartGspa, Start
  <2>2. Accepted \/ Failed => Write(Written) \/ car' = car
    BY DEF Accepted, Failed
  <2> QED
    BY <1>1, <1>2, <1>3, <2>1, <2>2, <2>3, <2>4, <2>5, <2>6, <2>7 DEF Next

\* "None means leave unchanged": no step of any call changes a setting whose
\* value was taken from an up-to-date vehicle, however often the options are
\* used and the call is run.
THEOREM UnaskedStays == Spec => UnaskedIsUnchanged
<1>1. ASSUME IInv, [Next]_vars
      PROVE  [apps' = apps /\ platform # "gspa" => \A f \in Fields : LeavesUnchanged(f)]_vars
  <2>1. ASSUME apps' = apps, platform # "gspa", NEW f \in Fields
        PROVE  LeavesUnchanged(f)
    BY <1>1, <2>1, StepLeavesUnchanged
  <2> QED
    BY <2>1
<1> QED
  BY <1>1, Invariant, PTL DEF Spec, UnaskedIsUnchanged
-----------------------------------------------------------------------------
(* A call has a bounded number of steps.                                    *)

\* What is left of a call, its second run included.
StepsLeft ==
  IF pc = "idle" THEN 0
  ELSE (IF again THEN 0 ELSE 5)
       + (IF pc = "start" THEN 4
          ELSE IF pc = "charge" THEN 3
          ELSE IF pc = "wait" THEN 2
          ELSE 1)

\* While a call is under way, every step takes it nearer to its end, but a
\* status that is taken over and a change made in the app.
CallAdvances ==
  pc # "idle" => \/ StepsLeft' < StepsLeft
                 \/ StepsLeft' = StepsLeft /\ (polls' > polls \/ apps' > apps)

\* A schedule call, over every kind of endpoint, ends after at most 9 steps of
\* its own, its one second run included: it sends each scope twice at most and
\* waits twice at most for the record of the charge.
THEOREM CallsAreShort == Spec => [](StepsLeft \in 0..9) /\ [][CallAdvances]_vars
<1>1. StepsLeft \in 0..9
  BY DEF StepsLeft
<1>2. ASSUME IInv, Next, pc # "idle"
      PROVE  \/ StepsLeft' < StepsLeft
             \/ StepsLeft' = StepsLeft /\ (polls' > polls \/ apps' > apps)
  <2>0. TypeOK
    BY <1>2 DEF IInv
  <2>e. ASSUME pc' = "idle" PROVE StepsLeft' < StepsLeft
    BY <1>2, <2>e DEF StepsLeft
  <2>1. ASSUME NEW r \in Reports, Poll(r) PROVE StepsLeft' = StepsLeft /\ polls' > polls
    <3>1. polls' = polls + 1 /\ UNCHANGED <<pc, again>>
      BY <1>2, <2>1 DEF Poll, CallIsOver
    <3> QED
      BY <2>0, <3>1 DEF StepsLeft, TypeOK
  <2>2. ASSUME NEW s \in Settings, AppChanges(s) PROVE StepsLeft' = StepsLeft /\ apps' > apps
    <3>1. apps' = apps + 1 /\ UNCHANGED <<pc, again>>
      BY <1>2, <2>2 DEF AppChanges, CallIsOver
    <3> QED
      BY <2>0, <3>1 DEF StepsLeft, TypeOK
  <2>3. CASE StartCombined \/ StartFlat \/ StartGspa
    <3>1. pc = "start"
      BY <2>3 DEF StartCombined, StartFlat, StartGspa
    <3>2. Refuse \/ Start("combined") \/ Start("charge") \/ Start("hvac")
      <4>1. CASE StartFlat
        BY <4>1 DEF StartFlat
      <4> QED
        BY <2>3, <4>1 DEF StartCombined, StartGspa
    <3>3. CASE Refuse
      BY <2>e, <3>3 DEF Refuse
    <3>4. CASE Start("combined") \/ Start("charge") \/ Start("hvac")
      <4>1. pc' \in {"combined", "charge", "hvac"} /\ again' = again
        BY <3>4 DEF Start
      <4> QED
        BY <3>1, <4>1 DEF StepsLeft
    <3> QED
      BY <3>2, <3>3, <3>4
  <2>4. CASE Accepted
    <3>1. pc = "charge" \/ pc' = "idle"
      BY <2>4 DEF Accepted
    <3>2. pc = "charge" => pc' \in {"wait", "idle"} /\ again' = again
      BY <2>4 DEF Accepted, AfterCharge
    <3>3. pc = "charge" /\ pc' = "wait" => StepsLeft' < StepsLeft
      BY <3>2 DEF StepsLeft
    <3> QED
      BY <2>e, <3>1, <3>2, <3>3
  <2>5. CASE Settled
    BY <2>5 DEF Settled, StepsLeft
  <2>6. CASE Failed
    BY <2>e, <2>6 DEF Failed
  <2>7. CASE RunAgain
    BY <2>7 DEF RunAgain, StepsLeft
  <2>8. ~ (FromVehicle \/ schedule_charging_and_climate \/ schedule_reservation_charge
           \/ schedule_reservation_hvac \/ (\E r \in Requests : NewOptions(r))
           \/ \E d \in {1, 2} : ReplaceDeparture(d))
    BY <1>2 DEF FromVehicle, schedule_charging_and_climate, schedule_reservation_charge,
                schedule_reservation_hvac, NewOptions, ReplaceDeparture, Call
  <2> QED
    BY <1>2, <2>1, <2>2, <2>3, <2>4, <2>5, <2>6, <2>7, <2>8 DEF Next
<1>3. IInv /\ [Next]_vars => [CallAdvances]_vars
  BY <1>2 DEF CallAdvances
<1> QED
  BY <1>1, <1>3, Invariant, PTL DEF Spec
=============================================================================
