--------------------------- MODULE Analyzer_proofs ---------------------------
(***************************************************************************)
(* Proofs about Analyzer, for every command line, file and frame, every    *)
(* way files can fail, and every limit and timeout.                        *)
(***************************************************************************)
EXTENDS Analyzer, SequenceTheorems, FiniteSetTheorems, WellFoundedInduction, TLAPS

-----------------------------------------------------------------------------
(* The command line                                                        *)

OptionFields == {"path", "show", "json", "out_dir", "limit", "verify_checksum", "active", "idle",
                 "filter", "i", "ip_version", "result"}

(* What parseArgs keeps: the fields, an index and sections that exist.     *)
IsOptions(o) ==
    /\ o = [f \in OptionFields |-> o[f]]
    /\ o.i \in Nat \ {0}
    /\ o.show \subseteq Sections

(* What a round of parseArgs gives, before it is behind the last argument. *)
Goes(o) == IsOptions(o) /\ o.result \in {"more", "usage", "help", "version"}

(* The options before the first argument.                                  *)
LEMMA NewOptionsOK == Goes(NewOptions)
<1>1. NewOptions = [f \in OptionFields |-> NewOptions[f]]
  BY DEF NewOptions, OptionFields
<1>2. NewOptions.i = 1 /\ NewOptions.show = {} /\ NewOptions.result = "more"
  BY DEF NewOptions
<1> QED BY <1>1, <1>2 DEF Goes, IsOptions

(* Giving up on the arguments leaves options.                              *)
LEMMA UsageOK ==
    ASSUME NEW o, Goes(o)
    PROVE  Goes(Usage(o))
BY DEF Goes, IsOptions, Usage, OptionFields

(* An address, sound or not, leaves options.                               *)
LEMMA TakeAddressOK ==
    ASSUME NEW o, NEW opt, NEW s, Goes(o)
    PROVE  Goes(TakeAddress(o, opt, s))
<1> DEFINE a == FilterIp(s)
           on == [o EXCEPT !.filter.isIpv4 = (a.version = 4), !.ip_version = a.version,
                       !.filter.src_ip = IF opt = "--src-ip" THEN a.ip ELSE @,
                       !.filter.dst_ip = IF opt = "--dst-ip" THEN a.ip ELSE @]
<1>1. TakeAddress(o, opt, s) \in {Usage(o), on}
  BY DEF TakeAddress
<1>2. Goes(on)
  BY DEF Goes, IsOptions, OptionFields
<1> QED BY <1>1, <1>2, UsageOK

(* So does the value of any option.                                        *)
LEMMA TakeValueOK ==
    ASSUME NEW o, NEW opt \in Valued, NEW s, Goes(o)
    PROVE  Goes(TakeValue(o, opt, s))
<1>1. Goes(TakeOut(o, s))
  BY UsageOK DEF TakeOut, Goes, IsOptions, OptionFields
<1>2. Goes(TakeLimit(o, s))
  BY UsageOK DEF TakeLimit, Goes, IsOptions, OptionFields
<1>3. Goes(TakeProtocol(o, s))
  BY UsageOK DEF TakeProtocol, Goes, IsOptions, OptionFields
<1>4. Goes(TakeSeconds(o, opt, s))
  BY UsageOK DEF TakeSeconds, Goes, IsOptions, OptionFields
<1>5. Goes(TakePort(o, opt, s))
  <2> DEFINE port == ParseUint(s, 65535)
             on == [o EXCEPT !.filter.src_port = IF opt = "--src-port" THEN port ELSE @,
                             !.filter.dst_port = IF opt = "--dst-port" THEN port ELSE @]
  <2>1. TakePort(o, opt, s) \in {Usage(o), on}
    BY DEF TakePort
  <2> HIDE DEF port
  <2>2. Goes(on)
    BY DEF Goes, IsOptions, OptionFields
  <2> QED BY <2>1, <2>2, UsageOK
<1>6. Goes(TakeAddress(o, opt, s))
  BY TakeAddressOK
<1> QED
  BY <1>1, <1>2, <1>3, <1>4, <1>5, <1>6
  DEF TakeValue, Valued, SecondsOptions, AddressOptions, PortOptions

(* So does a round of parseArgs on any argument.                           *)
LEMMA ArgumentOK ==
    ASSUME NEW o, NEW args, Goes(o), o.result = "more", args[o.i] \in Arguments
    PROVE  Goes(Argument(o, args))
<1> DEFINE opt == args[o.i].opt
           on == [o EXCEPT !.i = @ + 1]
           v == [o EXCEPT !.i = @ + 2]
<1>1. Goes(on) /\ Goes(v)
  BY DEF Goes, IsOptions, OptionFields
<1>2. Goes([o EXCEPT !.result = "help"]) /\ Goes([o EXCEPT !.result = "version"])
  BY DEF Goes, IsOptions, OptionFields
<1>3. opt \in Sections => Goes([on EXCEPT !.show = @ \cup {opt}])
  BY <1>1 DEF Goes, IsOptions, OptionFields
<1>4. Goes([on EXCEPT !.show = @ \cup (Sections \ {"packets"})])
  BY <1>1 DEF Goes, IsOptions, OptionFields
<1>5. Goes([on EXCEPT !.json = TRUE]) /\ Goes([on EXCEPT !.verify_checksum = FALSE])
  BY <1>1 DEF Goes, IsOptions, OptionFields
<1>6. Goes([on EXCEPT !.path = args[o.i].text])
  BY <1>1 DEF Goes, IsOptions, OptionFields
<1>7. opt \in Valued => Goes(TakeValue(v, opt, args[o.i + 1].text))
  BY <1>1, TakeValueOK
<1>8. Goes(Usage(o))
  BY UsageOK
<1>9. opt \in Sections \cup Valued
              \cup {"--help", "--version", "--all", "--json", "--no-checksum", "unknown", "value"}
  BY DEF Arguments
<1>10. CASE opt \in Sections
  <2>1. /\ opt \notin Valued
        /\ opt \notin {"--help", "--version", "--all", "--json", "--no-checksum", "unknown", "value"}
    BY <1>10 DEF Sections, Valued, SecondsOptions, AddressOptions, PortOptions
  <2>2. Argument(o, args) = [on EXCEPT !.show = @ \cup {opt}]
    BY <1>10, <2>1 DEF Argument
  <2> HIDE DEF opt, on
  <2> QED BY <1>10, <2>2, <1>3
<1>11. CASE opt \in Valued
  <2>1. /\ opt \notin Sections
        /\ opt \notin {"--help", "--version", "--all", "--json", "--no-checksum", "unknown", "value"}
    BY <1>11 DEF Sections, Valued, SecondsOptions, AddressOptions, PortOptions
  <2>2. Argument(o, args) \in {Usage(o), TakeValue(v, opt, args[o.i + 1].text)}
    BY <1>11, <2>1 DEF Argument
  <2> HIDE DEF opt, v
  <2> QED BY <1>11, <2>2, <1>7, <1>8
<1>12. CASE opt \in {"--help", "--version", "--all", "--json", "--no-checksum", "unknown", "value"}
  <2>1. opt \notin Sections /\ opt \notin Valued
    BY <1>12 DEF Sections, Valued, SecondsOptions, AddressOptions, PortOptions
  <2>2. Argument(o, args) \in
           {[o EXCEPT !.result = "help"], [o EXCEPT !.result = "version"],
            [on EXCEPT !.show = @ \cup (Sections \ {"packets"})], [on EXCEPT !.json = TRUE],
            [on EXCEPT !.verify_checksum = FALSE], Usage(o), [on EXCEPT !.path = args[o.i].text]}
    BY <1>12, <2>1 DEF Argument
  <2> HIDE DEF on
  <2> QED BY <2>2, <1>2, <1>4, <1>5, <1>6, <1>8
<1> QED BY <1>9, <1>10, <1>11, <1>12

(* What the rest of the program finds: an answer, or a selection to show.  *)
Decided(o) ==
    /\ IsOptions(o)
    /\ o.result \in {"more", "usage", "help", "version", "run"}

(* The defaults after the last argument decide what cli does.              *)
LEMMA SelectedOK ==
    ASSUME NEW o, Goes(o)
    PROVE  Decided(Selected(o))
BY DEF Goes, Decided, IsOptions, OptionFields, Selected, Usage, Sections

-----------------------------------------------------------------------------
(* The exit code                                                           *)

Broken == IF ToFile THEN opts.show \cap (env.create \cup env.write) ELSE {}
There  == opts.show \ Broken

(* What has been emitted: all of it but the sections in left.              *)
Emitted(left) ==
    /\ DOMAIN shown = (There \ {"packets"}) \ left
    /\ written \in Seq(Sections)
    /\ IF ToFile
       THEN ToSet(written) = There \ left /\ Len(written) = Cardinality(There \ left)
       ELSE written = <<>>
    /\ write_failed \in BOOLEAN
    /\ write_failed <=> Broken \ left # {}

Silent == shown = << >> /\ written = <<>>

(* The capture is being read, or has been.                                 *)
Running == opts.result = "run" /\ Opens /\ ~PacketsFails

EInv ==
    /\ argv \in Seq(Arguments)
    /\ Decided(opts)
    /\ pc \in {"args", "read", "emit", "exit"}
    /\ pc = "args" => Silent
    /\ pc = "read" => Silent /\ Running
    /\ pc = "emit" => Running /\ todo \subseteq opts.show \ {"packets"} /\ Emitted(todo)
    /\ ExitTells

(* ExitTells is about the exit.                                            *)
LEMMA ExitTellsElsewhere ==
    ASSUME pc # "exit"
    PROVE  ExitTells
BY DEF ExitTells

(* EInv holds before the first argument.                                   *)
LEMMA EInit == Init => EInv
<1> SUFFICES ASSUME Init PROVE EInv
  OBVIOUS
<1>1. argv \in Seq(Arguments)
  BY StartsAssumption DEF Init
<1>2. Decided(opts)
  BY NewOptionsOK DEF Init, Goes, Decided
<1>3. pc = "args" /\ Silent
  BY DEF Init, Silent
<1> QED BY <1>1, <1>2, <1>3, ExitTellsElsewhere DEF EInv

(* The exits without a section.                                            *)
LEMMA ExitSilent ==
    ASSUME EInv, pc = "args", pc' = "exit", UNCHANGED <<argv, opts, env, file, shown, written>>,
           \/ opts.result # "run" /\ code' \in {0, 2}
           \/ code' = 2
           \/ ~Opens /\ code' = 1
    PROVE  EInv'
<1>1. Silent
  BY DEF EInv
<1>2. Silent' /\ (Opens' <=> Opens)
  BY <1>1 DEF Silent, Opens
<1>3. ExitTells'
  BY <1>2 DEF ExitTells, Silent, Opens
<1> QED BY <1>2, <1>3 DEF EInv, Decided, IsOptions

(* Appending adds one element to the set of elements.                      *)
LEMMA ToSetAppend ==
    ASSUME NEW S, NEW s \in Seq(S), NEW e \in S
    PROVE  ToSet(Append(s, e)) = ToSet(s) \cup {e}
<1> DEFINE t == Append(s, e)
<1>1. /\ DOMAIN s = 1 .. Len(s) /\ DOMAIN t = 1 .. Len(s) + 1 /\ Len(s) \in Nat
      /\ t[Len(s) + 1] = e /\ \A k \in 1 .. Len(s) : t[k] = s[k]
  OBVIOUS
<1> HIDE DEF t
<1>2. ToSet(t) \subseteq ToSet(s) \cup {e}
  BY <1>1 DEF ToSet
<1>3. ToSet(s) \subseteq ToSet(t)
  BY <1>1 DEF ToSet
<1>4. e \in ToSet(t)
  BY <1>1 DEF ToSet
<1> QED BY <1>2, <1>3, <1>4 DEF t

(* There are finitely many sections.                                       *)
LEMMA FiniteSections == IsFiniteSet(Sections)
<1> DEFINE S1 == {} \cup {"packets"}
           S2 == S1 \cup {"summary"}
           S3 == S2 \cup {"flows"}
           S4 == S3 \cup {"http"}
           S5 == S4 \cup {"dns"}
           S6 == S5 \cup {"bench"}
<1>1. Sections = S6
  BY DEF Sections
<1> HIDE DEF S1, S2, S3, S4, S5, S6
<1>2. IsFiniteSet(S1)
  BY FS_EmptySet, FS_AddElement DEF S1
<1>3. IsFiniteSet(S2)
  BY <1>2, FS_AddElement DEF S2
<1>4. IsFiniteSet(S3)
  BY <1>3, FS_AddElement DEF S3
<1>5. IsFiniteSet(S4)
  BY <1>4, FS_AddElement DEF S4
<1>6. IsFiniteSet(S5)
  BY <1>5, FS_AddElement DEF S5
<1>7. IsFiniteSet(S6)
  BY <1>6, FS_AddElement DEF S6
<1> QED BY <1>1, <1>7

(* A section that is written, or fails to be, is no longer to do.          *)
LEMMA EmitOK ==
    ASSUME EInv, NEW section \in Sections, Emit(section)
    PROVE  EInv'
<1>1. /\ section \in todo /\ todo \subseteq opts.show \ {"packets"}
      /\ Running /\ Emitted(todo) /\ pc = "emit" /\ Decided(opts)
  BY DEF EInv, Emit, IsNext
<1>2. UNCHANGED <<argv, file, env, opts, pc>>
  BY DEF Emit, inputs
<1>3. Running' /\ There' = There /\ Broken' = Broken /\ ToFile' = ToFile
  BY <1>1, <1>2 DEF Running, There, Broken, ToFile, Opens, PacketsFails, ShowsPackets
<1>4. EmitFails(section) <=> section \in Broken
  BY <1>1 DEF EmitFails, Broken
<1>5. section \in opts.show /\ opts.show \subseteq Sections
  BY <1>1 DEF Decided, IsOptions
<1>6. Broken \ todo' = IF EmitFails(section) THEN (Broken \ todo) \cup {section} ELSE Broken \ todo
  BY <1>1, <1>4 DEF Emit
<1>7. There \ todo' = IF EmitFails(section) THEN There \ todo ELSE (There \ todo) \cup {section}
  BY <1>1, <1>4, <1>5 DEF Emit, There
<1>8. DOMAIN shown' = (There \ {"packets"}) \ todo'
  <2>1. CASE EmitFails(section)
    <3>1. shown' = shown
      BY <2>1 DEF Emit
    <3> QED BY <2>1, <3>1, <1>1, <1>4, <1>7 DEF Emitted
  <2>2. CASE ~EmitFails(section)
    <3>1. DOMAIN shown' = {section} \cup DOMAIN shown
      BY <2>2 DEF Emit, FT!Put
    <3>2. DOMAIN shown = (There \ {"packets"}) \ todo
      BY <1>1 DEF Emitted
    <3> QED BY <2>2, <3>1, <3>2, <1>1, <1>7
  <2> QED BY <2>1, <2>2
<1>9. write_failed' \in BOOLEAN /\ (write_failed' <=> Broken \ todo' # {})
  <2>1. write_failed \in BOOLEAN /\ (write_failed <=> Broken \ todo # {})
    BY <1>1 DEF Emitted
  <2>2. write_failed' = (write_failed \/ EmitFails(section))
    BY DEF Emit
  <2> QED BY <2>1, <2>2, <1>6
<1>10. written' \in Seq(Sections)
  BY <1>1 DEF Emit, Emitted
<1>11. ToFile => ToSet(written') = There \ todo' /\ Len(written') = Cardinality(There \ todo')
  <2> SUFFICES ASSUME ToFile
               PROVE  ToSet(written') = There \ todo' /\ Len(written') = Cardinality(There \ todo')
    OBVIOUS
  <2>0. /\ written \in Seq(Sections) /\ ToSet(written) = There \ todo
        /\ Len(written) = Cardinality(There \ todo)
    BY <1>1 DEF Emitted
  <2>1. CASE EmitFails(section)
    <3>1. written' = written
      BY <2>1 DEF Emit
    <3> QED BY <2>0, <2>1, <3>1, <1>7
  <2>2. CASE ~EmitFails(section)
    <3>1. written' = Append(written, section)
      BY <2>2 DEF Emit
    <3>2. ToSet(written') = ToSet(written) \cup {section}
      BY <3>1, <2>0, ToSetAppend
    <3>3. Len(written') = Len(written) + 1
      BY <3>1, <2>0
    <3>4. section \notin There \ todo
      BY <1>1
    <3>5. IsFiniteSet(There \ todo)
      BY FiniteSections, <1>5, FS_Subset DEF There
    <3>6. Cardinality((There \ todo) \cup {section}) = Cardinality(There \ todo) + 1
      BY <3>4, <3>5, FS_AddElement
    <3> QED BY <2>0, <2>2, <3>2, <3>3, <3>6, <1>7
  <2> QED BY <2>1, <2>2
<1>12. ~ToFile => written' = <<>>
  BY <1>1 DEF Emit, Emitted
<1>13. Emitted(todo)'
  BY <1>3, <1>8, <1>9, <1>10, <1>11, <1>12 DEF Emitted
<1>14. todo' \subseteq opts'.show \ {"packets"}
  BY <1>1, <1>2 DEF Emit
<1>15. argv' \in Seq(Arguments) /\ Decided(opts)'
  BY <1>1, <1>2 DEF EInv, Decided, IsOptions
<1>16. pc' = "emit" /\ ExitTells'
  BY <1>1, <1>2 DEF ExitTells
<1> QED BY <1>3, <1>13, <1>14, <1>15, <1>16 DEF EInv

(* Closing the packets file goes on to the sections or fails.              *)
LEMMA EndOfCaptureOK ==
    ASSUME EInv, EndOfCapture
    PROVE  EInv'
<1>1. Silent /\ Running /\ Decided(opts) /\ argv \in Seq(Arguments)
  BY DEF EInv, EndOfCapture
<1>2. /\ UNCHANGED <<argv, file, env, opts, shown>> /\ pc' = "emit"
      /\ todo' = opts.show \ {"packets"}
      /\ write_failed' = (ShowsPackets /\ ToFile /\ "packets" \in env.write)
      /\ written' = IF ShowsPackets /\ ToFile /\ ~write_failed' THEN <<"packets">> ELSE <<>>
  BY DEF EndOfCapture, inputs
<1>3. Running' /\ There' = There /\ Broken' = Broken /\ ToFile' = ToFile
  BY <1>1, <1>2 DEF Running, There, Broken, ToFile, Opens, PacketsFails, ShowsPackets
<1>4. ToFile /\ "packets" \in opts.show => "packets" \notin env.create
  BY <1>1 DEF Running, PacketsFails, ShowsPackets
<1>5. write_failed' <=> "packets" \in Broken
  BY <1>2, <1>4 DEF Broken, ShowsPackets
<1>6. write_failed' \in BOOLEAN /\ (write_failed' <=> Broken \ todo' # {})
  <2>1. write_failed' \in BOOLEAN
    BY <1>2
  <2>2. Broken \subseteq opts.show
    BY DEF Broken
  <2> QED BY <2>1, <2>2, <1>2, <1>5
<1>7. There \ todo' = IF ShowsPackets /\ ~write_failed' THEN {"packets"} ELSE {}
  BY <1>2, <1>5 DEF There, ShowsPackets
<1>8. DOMAIN shown' = {} /\ (There \ {"packets"}) \ todo' = {}
  BY <1>1, <1>2, <1>7 DEF Silent
<1>9. written' \in Seq(Sections)
  <2>1. "packets" \in Sections
    BY DEF Sections
  <2>2. <<"packets">> \in Seq(Sections) /\ <<>> \in Seq(Sections)
    BY <2>1
  <2> QED BY <1>2, <2>2
<1>10. ToFile => ToSet(written') = There \ todo' /\ Len(written') = Cardinality(There \ todo')
  <2>1. ToSet(<<"packets">>) = {"packets"} /\ Len(<<"packets">>) = 1
    BY DEF ToSet
  <2>2. ToSet(<<>>) = {} /\ Len(<<>>) = 0
    BY DEF ToSet
  <2>3. Cardinality({"packets"}) = 1 /\ Cardinality({}) = 0
    BY FS_Singleton, FS_EmptySet
  <2> QED BY <2>1, <2>2, <2>3, <1>2, <1>7
<1>11. ~ToFile => written' = <<>>
  BY <1>2
<1>12. Emitted(todo)'
  BY <1>3, <1>6, <1>8, <1>9, <1>10, <1>11 DEF Emitted
<1>13. Decided(opts)' /\ ExitTells'
  BY <1>1, <1>2 DEF Decided, IsOptions, ExitTells
<1> QED BY <1>1, <1>2, <1>3, <1>12, <1>13 DEF EInv

(* The exit code after the last section.                                   *)
LEMMA FinishOK ==
    ASSUME EInv, Finish
    PROVE  EInv'
<1>1. Running /\ Emitted({}) /\ Decided(opts) /\ argv \in Seq(Arguments)
  BY DEF EInv, Finish
<1>2. /\ UNCHANGED <<argv, file, env, opts, shown, written>> /\ pc' = "exit"
      /\ code' = IF write_failed THEN 1 ELSE 0
  BY DEF Finish, Exit, inputs, result
<1>3. There' = There /\ Broken' = Broken /\ ToFile' = ToFile /\ Opens' = Opens /\ Opens
  BY <1>1, <1>2 DEF Running, There, Broken, ToFile, Opens
<1>4. /\ DOMAIN shown' = There' \ {"packets"}
      /\ IF ToFile' THEN ToSet(written') = There' /\ Len(written') = Cardinality(There')
         ELSE written' = <<>>
      /\ code' = IF Broken' # {} THEN 1 ELSE 0
  <2>1. There \ {} = There /\ (There \ {"packets"}) \ {} = There \ {"packets"}
        /\ Broken \ {} = Broken
    OBVIOUS
  <2> QED BY <1>1, <1>2, <1>3, <2>1 DEF Emitted
<1>5. ExitTells'
  BY <1>2, <1>3, <1>4 DEF ExitTells, There, Broken
<1> QED BY <1>1, <1>2, <1>5 DEF EInv, Decided, IsOptions

(* A round of parseArgs shows and writes nothing.                          *)
LEMMA ParseArgsOK ==
    ASSUME EInv, ParseArgs
    PROVE  EInv'
<1>1. Decided(opts) /\ argv \in Seq(Arguments) /\ Silent
  BY DEF EInv, ParseArgs
<1>2. /\ UNCHANGED <<argv, shown, written, pc>> /\ pc = "args" /\ opts.result = "more"
      /\ opts' = IF opts.i <= Len(argv) THEN Argument(opts, argv) ELSE Selected(opts)
  BY DEF ParseArgs, inputs, result
<1>3. Goes(opts)
  BY <1>1, <1>2 DEF Decided, Goes
<1>4. opts.i <= Len(argv) => argv[opts.i] \in Arguments
  BY <1>1 DEF Decided, IsOptions
<1>5. Decided(opts')
  <2>1. opts.i <= Len(argv) => Goes(Argument(opts, argv))
    BY <1>2, <1>3, <1>4, ArgumentOK
  <2> QED BY <1>2, <1>3, <2>1, SelectedOK DEF Decided, Goes
<1>6. Silent' /\ pc' = "args" /\ ExitTells'
  BY <1>1, <1>2 DEF Silent, ExitTells
<1> QED BY <1>1, <1>2, <1>5, <1>6 DEF EInv

(* Reading starts with nothing shown.                                      *)
LEMMA OpenCaptureOK ==
    ASSUME EInv, OpenCapture
    PROVE  EInv'
<1>1. Decided(opts) /\ argv \in Seq(Arguments) /\ Silent /\ Running
  BY DEF EInv, OpenCapture, Ready, Starting, Running
<1>2. UNCHANGED <<argv, file, env, opts, shown, written>> /\ pc' = "read"
  BY DEF OpenCapture, inputs, result
<1>3. Silent' /\ Running' /\ ExitTells'
  BY <1>1, <1>2 DEF Silent, Running, Opens, PacketsFails, ShowsPackets, ToFile, ExitTells
<1> QED BY <1>1, <1>2, <1>3 DEF EInv, Decided, IsOptions

(* A round of reading that does not end it.                                *)
LEMMA ReadingOK ==
    ASSUME EInv, pc = "read", UNCHANGED <<inputs, pc, opts, result>>
    PROVE  EInv'
<1>1. Decided(opts) /\ argv \in Seq(Arguments) /\ Silent /\ Running
  BY DEF EInv
<1>2. UNCHANGED <<argv, file, env, opts, shown, written, pc>>
  BY DEF inputs, result
<1>3. Silent' /\ Running' /\ ExitTells'
  BY <1>1, <1>2 DEF Silent, Running, Opens, PacketsFails, ShowsPackets, ToFile, ExitTells
<1> QED BY <1>1, <1>2, <1>3 DEF EInv, Decided, IsOptions

(* Every step keeps EInv.                                                  *)
LEMMA EStep == EInv /\ [Next]_vars => EInv'
<1> SUFFICES ASSUME EInv, [Next]_vars PROVE EInv'
  OBVIOUS
<1>1. CASE ParseArgs
  BY <1>1, ParseArgsOK
<1>2. CASE Told
  <2>1. pc = "args" /\ pc' = "exit" /\ opts.result # "run" /\ code' \in {0, 2}
    BY <1>2 DEF Told, Exit
  <2>2. UNCHANGED <<argv, opts, env, file, shown, written>>
    BY <1>2 DEF Told, inputs, result
  <2> QED BY <2>1, <2>2, ExitSilent
<1>3. CASE NoDirectory
  <2>1. pc = "args" /\ pc' = "exit" /\ code' = 2
    BY <1>3 DEF NoDirectory, Starting, Exit
  <2>2. UNCHANGED <<argv, opts, env, file, shown, written>>
    BY <1>3 DEF NoDirectory, inputs, result
  <2> QED BY <2>1, <2>2, ExitSilent
<1>4. CASE NoCapture
  <2>1. pc = "args" /\ pc' = "exit" /\ ~Opens /\ code' = 1
    BY <1>4 DEF NoCapture, Ready, Starting, Exit
  <2>2. UNCHANGED <<argv, opts, env, file, shown, written>>
    BY <1>4 DEF NoCapture, inputs, result
  <2> QED BY <2>1, <2>2, ExitSilent
<1>5. CASE NoPacketsFile
  <2>1. pc = "args" /\ pc' = "exit" /\ code' = 2
    BY <1>5 DEF NoPacketsFile, Ready, Starting, Exit
  <2>2. UNCHANGED <<argv, opts, env, file, shown, written>>
    BY <1>5 DEF NoPacketsFile, inputs, result
  <2> QED BY <2>1, <2>2, ExitSilent
<1>6. CASE OpenCapture
  BY <1>6, OpenCaptureOK
<1>7. CASE SkipPacket \/ DropPacket \/ DecodePacket
  <2>1. pc = "read" /\ UNCHANGED <<inputs, pc, opts, result>>
    BY <1>7 DEF SkipPacket, DropPacket, DecodePacket, Whole
  <2> QED BY <2>1, ReadingOK
<1>8. CASE EndOfCapture
  BY <1>8, EndOfCaptureOK
<1>9. CASE \E section \in Sections : Emit(section)
  BY <1>9, EmitOK
<1>10. CASE Finish
  BY <1>10, FinishOK
<1>11. CASE UNCHANGED vars
  <2>1. UNCHANGED <<argv, file, env, pc, opts, todo, shown, written, write_failed, code>>
    BY <1>11 DEF vars, inputs, result
  <2>2. UNCHANGED <<Silent, Running, Emitted(todo), ExitTells>>
    BY <2>1 DEF Silent, Running, Emitted, ExitTells, Opens, PacketsFails, ShowsPackets, ToFile,
             There, Broken
  <2> QED BY <2>1, <2>2 DEF EInv, Decided, IsOptions
<1> QED BY <1>1, <1>2, <1>3, <1>4, <1>5, <1>6, <1>7, <1>8, <1>9, <1>10, <1>11 DEF Next

(* The exit code tells what was written, for every command line, capture   *)
(* and way in which directories, captures and files can fail.              *)
THEOREM ExitCodeTells == Spec => []ExitTells
<1>1. EInv => ExitTells
  BY DEF EInv
<1> QED BY <1>1, EInit, EStep, PTL DEF Spec

-----------------------------------------------------------------------------
(* The records of a capture                                                *)

(* A set of numbers that is not empty has a least one.                     *)
LEMMA LeastOf == ASSUME NEW T \in SUBSET Nat, T # {} PROVE \E t \in T : \A y \in T : t <= y
<1>1. PICK t \in T : \A y \in T : ~(<<y, t>> \in OpToRel(<, Nat))
  BY NatLessThanWellFounded, WFMin
<1>2. \A y \in T : ~(y < t)
  BY <1>1 DEF OpToRel
<1>3. \A y \in T : t <= y
  BY <1>2
<1> QED BY <1>3

(* A field of a file is a number of two bytes in either order.             *)
LEMMA NumberType ==
    ASSUME NEW f \in Seq(Byte), NEW at \in Nat, NEW n \in 1 .. 5, at + 2 * n <= Len(f)
    PROVE  /\ f[at + 2 * n - 1] \in Byte /\ f[at + 2 * n] \in Byte
           /\ Number(f, at, n) \in Nat
<1>1. at + 2 * n - 1 \in 1 .. Len(f) /\ at + 2 * n \in 1 .. Len(f)
  OBVIOUS
<1>2. f[at + 2 * n - 1] \in Byte /\ f[at + 2 * n] \in Byte
  BY <1>1
<1> DEFINE x == f[at + 2 * n - 1]
           y == f[at + 2 * n]
<1>3. Number(f, at, n) \in {256 * x + y, 256 * y + x}
  BY DEF Number
<1>4. x \in 0 .. 255 /\ y \in 0 .. 255
  BY <1>2 DEF Byte
<1> HIDE DEF x, y
<1>5. 256 * x + y \in Nat /\ 256 * y + x \in Nat
  BY <1>4
<1> QED BY <1>2, <1>3, <1>5

(* A record lies in the file, and the next one behind it.                  *)
LEMMA BeyondOnward ==
    ASSUME NEW f \in Seq(Byte), NEW at \in 0 .. Len(f), IsRecord(f, at)
    PROVE  Beyond(f, at) \in 0 .. Len(f) /\ at < Beyond(f, at)
<1>1. Len(f) \in Nat /\ at + 2 * 3 <= Len(f)
  BY DEF IsRecord, PACKET_HEADER_LEN
<1>2. Number(f, at, 3) \in Nat
  BY <1>1, NumberType
<1> QED BY <1>1, <1>2 DEF IsRecord, Beyond, PACKET_HEADER_LEN

RecordsOf(f) == {RecordAt(f, at) : at \in 0 .. Len(f)}

Taken(a, f, fates, at) ==
    IF Fate(a, f, RecordAt(f, at)) \in fates THEN <<RecordAt(f, at)>> ELSE <<>>

(* What RecordsFrom's function is at an offset, from what it is further on.*)
ListAt(a, f, fates, g, at) ==
    IF ~IsRecord(f, at) THEN <<>> ELSE Taken(a, f, fates, at) \o g[Beyond(f, at)]

ListsNear(a, f, fates, k, g) ==
    \A at \in 0 .. Len(f) : Len(f) - at < k => g[at] = ListAt(a, f, fates, g, at)

(* The list at an offset depends on the lists further on only.             *)
LEMMA ListAtSame ==
    ASSUME NEW a, NEW f \in Seq(Byte), NEW fates, NEW g, NEW h, NEW at \in 0 .. Len(f),
           \A q \in 0 .. Len(f) : at < q => g[q] = h[q]
    PROVE  ListAt(a, f, fates, g, at) = ListAt(a, f, fates, h, at)
<1>1. IsRecord(f, at) => g[Beyond(f, at)] = h[Beyond(f, at)]
  BY BeyondOnward
<1> QED BY <1>1 DEF ListAt

(* The lists of the last k bytes exist, for every k.                       *)
LEMMA ListsExist ==
    ASSUME NEW a, NEW f \in Seq(Byte), NEW fates
    PROVE  \A k \in Nat : \E g : ListsNear(a, f, fates, k, g)
<1> DEFINE T == {k \in Nat : ~\E g : ListsNear(a, f, fates, k, g)}
<1>1. SUFFICES ASSUME T # {} PROVE FALSE
  BY Zenon
<1>2. PICK k \in T : \A y \in T : k <= y
  <2>1. T \in SUBSET Nat
    OBVIOUS
  <2> HIDE DEF T
  <2> QED BY <1>1, <2>1, LeastOf
<1>3. k \in Nat /\ ~\E g : ListsNear(a, f, fates, k, g)
  OBVIOUS
<1>0. Len(f) \in Nat
  OBVIOUS
<1>4. k # 0
  <2>1. ListsNear(a, f, fates, 0, <<>>)
    <3>1. \A at \in 0 .. Len(f) : ~(Len(f) - at < 0)
      BY <1>0
    <3> QED BY <3>1 DEF ListsNear
  <2> QED BY <1>3, <2>1
<1>5. k - 1 \in Nat /\ ~(k <= k - 1)
  BY <1>3, <1>4
<1>6. k - 1 \notin T
  BY <1>2, <1>5
<1>7. PICK g : ListsNear(a, f, fates, k - 1, g)
  BY <1>5, <1>6
<1> DEFINE h == [at \in 0 .. Len(f) |-> IF Len(f) - at < k - 1 THEN g[at]
                                        ELSE ListAt(a, f, fates, g, at)]
<1>8. \A at \in 0 .. Len(f) : Len(f) - at < k - 1 => h[at] = g[at]
  OBVIOUS
<1>9. \A at \in 0 .. Len(f) : h[at] = ListAt(a, f, fates, g, at)
  BY <1>7 DEF ListsNear
<1> HIDE DEF h
<1>10. ASSUME NEW at \in 0 .. Len(f), Len(f) - at < k
       PROVE  h[at] = ListAt(a, f, fates, h, at)
  <2>1. ASSUME NEW q \in 0 .. Len(f), at < q PROVE g[q] = h[q]
    <3>1. Len(f) - q < k - 1
      BY <1>0, <1>3, <1>10, <2>1
    <3> QED BY <1>8, <3>1
  <2>2. ListAt(a, f, fates, g, at) = ListAt(a, f, fates, h, at)
    BY <2>1, ListAtSame
  <2> QED BY <1>9, <2>2
<1>11. ListsNear(a, f, fates, k, h)
  BY <1>10 DEF ListsNear
<1> QED BY <1>3, <1>11

(* RecordsFrom is well defined, and unfolds record by record.              *)
LEMMA RecordsFromIs ==
    ASSUME NEW a, NEW f \in Seq(Byte), NEW fates, NEW at \in 0 .. Len(f)
    PROVE  RecordsFrom(a, f, at, fates) =
             IF ~IsRecord(f, at) THEN <<>>
             ELSE Taken(a, f, fates, at) \o RecordsFrom(a, f, Beyond(f, at), fates)
<1> DEFINE P(g) == g = [q \in 0 .. Len(f) |-> ListAt(a, f, fates, g, q)]
           list == CHOOSE g : P(g)
<1>1. \A from : RecordsFrom(a, f, from, fates) = list[from]
  BY DEF RecordsFrom, ListAt, Taken
<1>2. \E g : P(g)
  <2>0. Len(f) \in Nat /\ Len(f) + 1 \in Nat
    OBVIOUS
  <2>1. PICK g : ListsNear(a, f, fates, Len(f) + 1, g)
    BY <2>0, ListsExist
  <2>2. \A q \in 0 .. Len(f) : Len(f) - q < Len(f) + 1
    BY <2>0
  <2> DEFINE h == [q \in 0 .. Len(f) |-> g[q]]
  <2>3. \A q \in 0 .. Len(f) : h[q] = g[q] /\ h[q] = ListAt(a, f, fates, g, q)
    BY <2>1, <2>2 DEF ListsNear
  <2>4. h = [q \in 0 .. Len(f) |-> h[q]]
    OBVIOUS
  <2> HIDE DEF h
  <2>5. ASSUME NEW q \in 0 .. Len(f) PROVE h[q] = ListAt(a, f, fates, h, q)
    <3>1. \A p \in 0 .. Len(f) : q < p => g[p] = h[p]
      BY <2>3
    <3>2. ListAt(a, f, fates, g, q) = ListAt(a, f, fates, h, q)
      BY <3>1, ListAtSame
    <3> QED BY <2>3, <3>2
  <2>6. h = [q \in 0 .. Len(f) |-> ListAt(a, f, fates, h, q)]
    BY <2>4, <2>5
  <2> QED BY <2>6
<1>3. P(list)
  <2> HIDE DEF P
  <2> QED BY <1>2
<1>4. list[at] = ListAt(a, f, fates, list, at)
  BY <1>3
<1> HIDE DEF list
<1> QED BY <1>1, <1>4 DEF ListAt

(* RecordsFrom is the function its definition chooses: lists of records.   *)
LEMMA RecordsFromType ==
    ASSUME NEW a, NEW f \in Seq(Byte), NEW fates
    PROVE  \A at \in 0 .. Len(f) : RecordsFrom(a, f, at, fates) \in Seq(RecordsOf(f))
<1> DEFINE Bad(n) == \E at \in 0 .. Len(f) :
                        Len(f) - at = n /\ RecordsFrom(a, f, at, fates) \notin Seq(RecordsOf(f))
           T == {n \in Nat : Bad(n)}
<1>0. Len(f) \in Nat
  OBVIOUS
<1>1. SUFFICES ASSUME T # {} PROVE FALSE
  <2>1. ASSUME NEW at \in 0 .. Len(f), RecordsFrom(a, f, at, fates) \notin Seq(RecordsOf(f))
        PROVE  FALSE
    <3>1. Len(f) - at \in Nat
      BY <1>0
    <3>2. Len(f) - at \in T
      BY <3>1, <2>1
    <3> QED BY <3>2, <1>1
  <2> QED BY <2>1
<1>2. PICK n \in T : \A y \in T : n <= y
  <2>1. T \in SUBSET Nat
    OBVIOUS
  <2> HIDE DEF T
  <2> QED BY <1>1, <2>1, LeastOf
<1>3. PICK at \in 0 .. Len(f) :
        Len(f) - at = n /\ RecordsFrom(a, f, at, fates) \notin Seq(RecordsOf(f))
  OBVIOUS
<1>4. IsRecord(f, at)
  <2>1. ~IsRecord(f, at) => RecordsFrom(a, f, at, fates) = <<>>
    BY RecordsFromIs
  <2>2. <<>> \in Seq(RecordsOf(f))
    OBVIOUS
  <2> QED BY <1>3, <2>1, <2>2
<1>5. Beyond(f, at) \in 0 .. Len(f) /\ at < Beyond(f, at)
  BY <1>4, BeyondOnward
<1> DEFINE q == Beyond(f, at)
<1> HIDE DEF q
<1>6. RecordsFrom(a, f, q, fates) \in Seq(RecordsOf(f))
  <2>1. q \in 0 .. Len(f) /\ at < q
    BY <1>5 DEF q
  <2>2. Len(f) - q \in Nat /\ ~(n <= Len(f) - q)
    BY <2>1, <1>0, <1>3
  <2>3. Len(f) - q \notin T
    BY <1>2, <2>2
  <2> QED BY <2>1, <2>2, <2>3
<1>7. RecordAt(f, at) \in RecordsOf(f)
  BY DEF RecordsOf
<1>8. Taken(a, f, fates, at) \in Seq(RecordsOf(f))
  BY <1>7 DEF Taken
<1>9. RecordsFrom(a, f, at, fates) = Taken(a, f, fates, at) \o RecordsFrom(a, f, q, fates)
  BY <1>4, RecordsFromIs DEF q
<1> QED BY <1>3, <1>6, <1>8, <1>9

(* The bytes swapped.                                                      *)
LEMMA BswapIs ==
    ASSUME NEW x \in 0 .. 255, NEW y \in 0 .. 255
    PROVE  Bswap(x + 256 * y) = 256 * x + y
<1>1. (x + 256 * y) \div 256 = y /\ (x + 256 * y) % 256 = x
  OBVIOUS
<1> QED BY <1>1 DEF Bswap

Order2(f) == IF BigEndian(f) THEN "Big" ELSE "Little"

(* toHost gives the number that the field stands for in the byte order of  *)
(* the file.                                                               *)
LEMMA ToHostIs ==
    ASSUME NEW f \in Seq(Byte), NEW at \in Nat, NEW n \in 1 .. 5, at + 2 * n <= Len(f)
    PROVE  ToHost(Field(f, at, n), Order2(f)) = Number(f, at, n)
<1> DEFINE x == f[at + 2 * n - 1]
           y == f[at + 2 * n]
<1>1. x \in 0 .. 255 /\ y \in 0 .. 255
  BY NumberType DEF Byte
<1>2. Field(f, at, n) = x + 256 * y
  BY DEF Field
<1>3. Number(f, at, n) = IF BigEndian(f) THEN 256 * x + y ELSE 256 * y + x
  BY DEF Number
<1> HIDE DEF x, y
<1>4. Bswap(x + 256 * y) = 256 * x + y
  BY <1>1, BswapIs
<1>5. x + 256 * y = 256 * y + x
  BY <1>1
<1> QED BY <1>2, <1>3, <1>4, <1>5 DEF ToHost, Order2

SoundMagic(f) == \/ f[1] = 161 /\ f[2] \in {212, 77}
                 \/ f[2] = 161 /\ f[1] \in {212, 77}

(* The magic number tells the byte order and the unit of times.            *)
LEMMA MagicIs ==
    ASSUME NEW f \in Seq(Byte), Len(f) >= FILE_HEADER_LEN
    PROVE  /\ SoundMagic(f) => MagicEndian(Field(f, 0, 1)) = Order2(f)
           /\ ~SoundMagic(f) => MagicEndian(Field(f, 0, 1)) = "None"
           /\ SoundMagic(f) =>
                 (Field(f, 0, 1) \in {PCAP_MAGIC_NSEC_LE, PCAP_MAGIC_NSEC_BE}
                    <=> 77 \in {f[1], f[2]})
<1> DEFINE x == f[1]
           y == f[2]
<1>1. x \in 0 .. 255 /\ y \in 0 .. 255
  <2>1. 1 \in 1 .. Len(f) /\ 2 \in 1 .. Len(f)
    BY DEF FILE_HEADER_LEN
  <2>2. f[1] \in Byte /\ f[2] \in Byte
    BY <2>1
  <2> QED BY <2>2 DEF Byte
<1>2. Field(f, 0, 1) = x + 256 * y
  BY DEF Field
<1> HIDE DEF x, y
<1>3. SoundMagic(f) <=> \/ x = 161 /\ y \in {212, 77}
                        \/ y = 161 /\ x \in {212, 77}
  BY DEF SoundMagic, x, y
<1> DEFINE v == x + 256 * y
<1>4. /\ v = 256 * 161 + 212 <=> x = 212 /\ y = 161
      /\ v = 256 * 212 + 161 <=> x = 161 /\ y = 212
      /\ v = 256 * 161 + 77 <=> x = 77 /\ y = 161
      /\ v = 256 * 77 + 161 <=> x = 161 /\ y = 77
  BY <1>1
<1>5. BigEndian(f) <=> x = 161
  BY DEF BigEndian, x
<1>6. 77 \in {f[1], f[2]} <=> x = 77 \/ y = 77
  BY DEF x, y
<1> HIDE DEF v
<1>7. /\ v = PCAP_MAGIC_USEC_LE <=> x = 212 /\ y = 161
      /\ v = PCAP_MAGIC_USEC_BE <=> x = 161 /\ y = 212
      /\ v = PCAP_MAGIC_NSEC_LE <=> x = 77 /\ y = 161
      /\ v = PCAP_MAGIC_NSEC_BE <=> x = 161 /\ y = 77
  BY <1>4 DEF PCAP_MAGIC_USEC_LE, PCAP_MAGIC_USEC_BE, PCAP_MAGIC_NSEC_LE, PCAP_MAGIC_NSEC_BE
<1>8. Field(f, 0, 1) = v
  BY <1>2 DEF v
<1>9. MagicEndian(v) = IF x = 161 /\ y \in {212, 77} THEN "Big"
                       ELSE IF y = 161 /\ x \in {212, 77} THEN "Little" ELSE "None"
  BY <1>7 DEF MagicEndian
<1>10. SoundMagic(f) => MagicEndian(v) = Order2(f)
  BY <1>3, <1>5, <1>9 DEF Order2
<1>11. ~SoundMagic(f) => MagicEndian(v) = "None"
  BY <1>3, <1>9
<1>12. SoundMagic(f) => (v \in {PCAP_MAGIC_NSEC_LE, PCAP_MAGIC_NSEC_BE} <=> 77 \in {f[1], f[2]})
  BY <1>3, <1>6, <1>7
<1> QED BY <1>8, <1>10, <1>11, <1>12

(* What the constructor accepts, field by field.                           *)
LEMMA SoundFileIs ==
    ASSUME NEW f
    PROVE  SoundFile(f) <=>
             /\ Len(f) >= FILE_HEADER_LEN /\ SoundMagic(f)
             /\ Number(f, 0, 2) = 2 /\ Number(f, 0, 3) = 4
             /\ Number(f, 0, 4) # 0 /\ Number(f, 0, 5) % 4096 = LINKTYPE_ETHERNET
BY DEF SoundFile, SoundMagic

(* The checks of the file header.                                          *)
LEMMA FileHeaderErrIs ==
    ASSUME NEW f \in Seq(Byte)
    PROVE  FileHeaderErr(f) = "None" <=> SoundFile(f)
<1>1. CASE Len(f) < FILE_HEADER_LEN
  <2>1. FileHeaderErr(f) = "UnexpectedEofF"
    BY <1>1 DEF FileHeaderErr
  <2>2. ~(Len(f) >= FILE_HEADER_LEN)
    BY <1>1 DEF FILE_HEADER_LEN
  <2> QED BY <2>1, <2>2, SoundFileIs
<1>2. CASE ~(Len(f) < FILE_HEADER_LEN)
  <2>0. Len(f) >= FILE_HEADER_LEN
    BY <1>2 DEF FILE_HEADER_LEN
  <2> DEFINE e == MagicEndian(Field(f, 0, 1))
  <2>1. CASE ~SoundMagic(f)
    <3>1. e = "None"
      BY <2>0, <2>1, MagicIs
    <3>2. FileHeaderErr(f) = "InvalidFieldValue"
      BY <1>2, <3>1 DEF FileHeaderErr
    <3> QED BY <2>1, <3>2, SoundFileIs
  <2>2. CASE SoundMagic(f)
    <3>1. e = Order2(f) /\ e # "None"
      BY <2>0, <2>2, MagicIs DEF Order2
    <3>2. \A n \in 1 .. 5 : ToHost(Field(f, 0, n), e) = Number(f, 0, n)
      <4> TAKE n \in 1 .. 5
      <4>1. 0 + 2 * n <= Len(f)
        BY <2>0 DEF FILE_HEADER_LEN
      <4> QED BY <4>1, <3>1, ToHostIs
    <3>3. /\ ToHost(Field(f, 0, 2), e) = Number(f, 0, 2)
          /\ ToHost(Field(f, 0, 3), e) = Number(f, 0, 3)
          /\ ToHost(Field(f, 0, 4), e) = Number(f, 0, 4)
          /\ ToHost(Field(f, 0, 5), e) = Number(f, 0, 5)
      BY <3>2
    <3>4. FileHeaderErr(f) =
            IF Number(f, 0, 2) # 2 \/ Number(f, 0, 3) # 4 THEN "UnsupportedVersion"
            ELSE IF Number(f, 0, 4) = 0 THEN "InvalidFieldValue"
            ELSE IF Number(f, 0, 5) % 4096 # LINKTYPE_ETHERNET THEN "UnsupportedLinktype"
            ELSE "None"
      BY <1>2, <3>1, <3>3 DEF FileHeaderErr, SUPPORTED_MAJOR_VERSION, SUPPORTED_MINOR_VERSION
    <3> QED BY <2>0, <2>2, <3>4, SoundFileIs
  <2> QED BY <2>1, <2>2
<1> QED BY <1>1, <1>2

ReaderFields == {"at", "header_err", "endian", "linktype", "is_nsec", "skipped", "last_skip_err",
                 "decoded"}

(* A reader that has read the header of f.                                 *)
Fits(f, rd) ==
    /\ rd = [x \in ReaderFields |-> rd[x]]
    /\ rd.at \in 0 .. Len(f)
    /\ rd.header_err = "None" <=> SoundFile(f)
    /\ SoundFile(f) => /\ rd.endian = Order2(f)
                       /\ rd.linktype = Number(f, 0, 5)
                       /\ rd.is_nsec = (77 \in {f[1], f[2]})

(* The reader starts within the file, behind the file header when that is  *)
(* sound.                                                                  *)
LEMMA NewReaderFits ==
    ASSUME NEW f \in Seq(Byte)
    PROVE  /\ Fits(f, NewReader(f))
           /\ SoundFile(f) => NewReader(f).at = FILE_HEADER_LEN
           /\ NewReader(f).skipped = 0 /\ NewReader(f).decoded = 0
<1> DEFINE rd == NewReader(f)
<1>1. /\ rd = [x \in ReaderFields |-> rd[x]]
      /\ rd.skipped = 0 /\ rd.decoded = 0 /\ rd.header_err = FileHeaderErr(f)
      /\ rd.at = IF FileHeaderErr(f) = "None" THEN FILE_HEADER_LEN ELSE 0
  BY DEF NewReader, ReaderFields
<1>2. SoundFile(f) => Len(f) >= FILE_HEADER_LEN /\ SoundMagic(f)
  BY SoundFileIs
<1>3. ASSUME SoundFile(f)
      PROVE  /\ rd.endian = Order2(f) /\ rd.linktype = Number(f, 0, 5)
             /\ rd.is_nsec = (77 \in {f[1], f[2]})
  <2>1. FileHeaderErr(f) = "None"
    BY <1>3, FileHeaderErrIs
  <2>2. /\ rd.endian = MagicEndian(Field(f, 0, 1))
        /\ rd.linktype = ToHost(Field(f, 0, 5), MagicEndian(Field(f, 0, 1)))
        /\ rd.is_nsec = (Field(f, 0, 1) \in {PCAP_MAGIC_NSEC_LE, PCAP_MAGIC_NSEC_BE})
    BY <2>1 DEF NewReader
  <2>3. 0 + 2 * 5 <= Len(f)
    BY <1>2, <1>3 DEF FILE_HEADER_LEN
  <2>4. ToHost(Field(f, 0, 5), Order2(f)) = Number(f, 0, 5)
    BY <2>3, ToHostIs
  <2> QED BY <1>2, <1>3, <2>2, <2>4, MagicIs
<1>4. rd.at \in 0 .. Len(f)
  <2>1. FileHeaderErr(f) = "None" => Len(f) >= FILE_HEADER_LEN
    BY <1>2, FileHeaderErrIs
  <2> QED BY <1>1, <2>1 DEF FILE_HEADER_LEN
<1> HIDE DEF rd
<1>5. Fits(f, rd)
  BY <1>1, <1>3, <1>4, FileHeaderErrIs DEF Fits
<1> QED BY <1>1, <1>5, FileHeaderErrIs DEF rd

(* What a round of readPacket finds at an offset.                          *)
LEMMA RoundFinds ==
    ASSUME NEW f \in Seq(Byte), NEW rd, Fits(f, rd), SoundFile(f)
    PROVE  /\ RecordErr(f, rd) = "None" <=> IsRecord(f, rd.at)
           /\ IsRecord(f, rd.at) => /\ Capture(f, rd) = RecordAt(f, rd.at)
                                    /\ Consumed(f, rd) = Beyond(f, rd.at)
           /\ DatalinkErr(rd) = IF Number(f, 0, 5) # LINKTYPE_ETHERNET THEN "UnsupportedLinktype"
                                ELSE "None"
<1> DEFINE at == rd.at
           H(n) == HeaderField(f, rd, n)
           N(n) == Number(f, at, n)
<1>1. /\ at \in Nat /\ at <= Len(f) /\ Len(f) \in Nat /\ rd.header_err = "None"
      /\ rd.endian = Order2(f) /\ rd.linktype = Number(f, 0, 5)
      /\ rd.is_nsec = (77 \in {f[1], f[2]})
  BY DEF Fits
<1>2. ASSUME at + PACKET_HEADER_LEN <= Len(f)
      PROVE  \A n \in 1 .. 4 : H(n) = N(n) /\ N(n) \in Nat
  <2> TAKE n \in 1 .. 4
  <2>1. at + 2 * n <= Len(f) /\ n \in 1 .. 5
    BY <1>1, <1>2 DEF PACKET_HEADER_LEN
  <2>2. ToHost(Field(f, at, n), Order2(f)) = N(n) /\ N(n) \in Nat
    BY <1>1, <2>1, ToHostIs, NumberType
  <2> QED BY <1>1, <2>2 DEF HeaderField
<1>3. Left(f, rd) = Len(f) - at
  BY DEF Left
<1>4. RecordErr(f, rd) = "None" <=> IsRecord(f, at)
  <2>1. CASE at + PACKET_HEADER_LEN <= Len(f)
    <3>1. H(3) = N(3) /\ H(4) = N(4) /\ N(3) \in Nat /\ N(4) \in Nat
      BY <1>2, <2>1
    <3>2. ~(Left(f, rd) < PACKET_HEADER_LEN)
      BY <1>1, <1>3, <2>1 DEF PACKET_HEADER_LEN
    <3>3. InclLen(f, rd) = N(3)
      BY <3>1 DEF InclLen
    <3>4. PacketHeaderErr(f, rd) = IF N(3) = 0 \/ N(4) = 0 THEN "InvalidFieldValue"
                                   ELSE IF N(3) > N(4) THEN "MalformedHeader" ELSE "None"
      BY <3>1, <3>2, <3>3 DEF PacketHeaderErr
    <3>5. RecordErr(f, rd) = "None" <=> /\ PacketHeaderErr(f, rd) = "None"
                                        /\ ~(Len(f) - at - PACKET_HEADER_LEN < N(3))
      BY <1>1, <1>3, <3>3 DEF RecordErr
    <3>6. IsRecord(f, at) <=> /\ N(3) \in 1 .. N(4)
                              /\ at + PACKET_HEADER_LEN + N(3) <= Len(f)
      BY <2>1 DEF IsRecord, Beyond
    <3> HIDE DEF N, at
    <3>7. N(3) \in 1 .. N(4) <=> ~(N(3) = 0 \/ N(4) = 0) /\ ~(N(3) > N(4))
      BY <3>1
    <3>8. ~(Len(f) - at - PACKET_HEADER_LEN < N(3)) <=> at + PACKET_HEADER_LEN + N(3) <= Len(f)
      BY <1>1, <3>1 DEF PACKET_HEADER_LEN
    <3> QED BY <3>4, <3>5, <3>6, <3>7, <3>8
  <2>2. CASE ~(at + PACKET_HEADER_LEN <= Len(f))
    <3>1. Left(f, rd) < PACKET_HEADER_LEN
      BY <1>1, <1>3, <2>2 DEF PACKET_HEADER_LEN
    <3>2. RecordErr(f, rd) = "UnexpectedEofF"
      BY <1>1, <3>1 DEF RecordErr, PacketHeaderErr
    <3> QED BY <2>2, <3>2 DEF IsRecord
  <2> QED BY <2>1, <2>2
<1>5. ASSUME IsRecord(f, at)
      PROVE  Capture(f, rd) = RecordAt(f, at) /\ Consumed(f, rd) = Beyond(f, at)
  <2>1. H(1) = N(1) /\ H(2) = N(2) /\ H(3) = N(3) /\ N(2) \in Nat /\ N(3) \in Nat
    BY <1>2, <1>5 DEF IsRecord
  <2>2. InclLen(f, rd) = N(3)
    BY <2>1 DEF InclLen
  <2>3. Consumed(f, rd) = Beyond(f, at)
    BY <1>4, <1>5, <2>2 DEF Consumed, Beyond
  <2>4. N(2) \div 1 = N(2)
    <3> HIDE DEF N
    <3> QED BY <2>1
  <2>5. (IF rd.is_nsec THEN H(2) \div NS_PER_US ELSE H(2))
          = N(2) \div (IF 77 \in {f[1], f[2]} THEN NS_PER_US ELSE 1)
    BY <1>1, <2>1, <2>4
  <2>6. SubSeq(f, at + PACKET_HEADER_LEN + 1, at + PACKET_HEADER_LEN + N(3))
          = [k \in 1 .. N(3) |-> f[at + PACKET_HEADER_LEN + k]]
    <3> DEFINE p == at + PACKET_HEADER_LEN
               m == N(3)
    <3>1. p \in Nat /\ m \in Nat
      BY <1>1, <2>1 DEF PACKET_HEADER_LEN
    <3> HIDE DEF p, m
    <3>2. SubSeq(f, p + 1, p + m) = [k \in 1 .. m |-> f[p + k]]
      BY <3>1
    <3> QED BY <3>2 DEF p, m
  <2> HIDE DEF H, N, at
  <2>7. Capture(f, rd) =
          [ts_us |-> N(1) * US_PER_SEC + (IF rd.is_nsec THEN H(2) \div NS_PER_US ELSE H(2)),
           incl_len |-> N(3),
           data |-> SubSeq(f, at + PACKET_HEADER_LEN + 1, at + PACKET_HEADER_LEN + N(3))]
    BY <2>1, <2>2 DEF Capture, H, at
  <2>8. RecordAt(f, at) =
          [ts_us |-> N(1) * US_PER_SEC
                       + N(2) \div (IF 77 \in {f[1], f[2]} THEN NS_PER_US ELSE 1),
           incl_len |-> N(3),
           data |-> [k \in 1 .. N(3) |-> f[at + PACKET_HEADER_LEN + k]]]
    BY DEF RecordAt, N
  <2> DEFINE frac == IF rd.is_nsec THEN H(2) \div NS_PER_US ELSE H(2)
             data == SubSeq(f, at + PACKET_HEADER_LEN + 1, at + PACKET_HEADER_LEN + N(3))
             Made(x, y) == [ts_us |-> N(1) * US_PER_SEC + x, incl_len |-> N(3), data |-> y]
  <2>9. Capture(f, rd) = Made(frac, data)
    BY <2>7
  <2>10. RecordAt(f, at) = Made(N(2) \div (IF 77 \in {f[1], f[2]} THEN NS_PER_US ELSE 1),
                               [k \in 1 .. N(3) |-> f[at + PACKET_HEADER_LEN + k]])
    BY <2>8
  <2> HIDE DEF Made
  <2> HIDE DEF data
  <2>11. data = [k \in 1 .. N(3) |-> f[at + PACKET_HEADER_LEN + k]]
    BY <2>6 DEF data
  <2>12. Capture(f, rd) = RecordAt(f, at)
    BY <2>5, <2>9, <2>10, <2>11
  <2> QED BY <2>3, <2>12
<1>6. DatalinkErr(rd) = IF Number(f, 0, 5) # LINKTYPE_ETHERNET THEN "UnsupportedLinktype"
                        ELSE "None"
  BY <1>1 DEF DatalinkErr
<1> QED BY <1>4, <1>5, <1>6

(* The reader never leaves the file.                                       *)
LEMMA ConsumedInFile ==
    ASSUME NEW f \in Seq(Byte), NEW rd, Fits(f, rd)
    PROVE  Consumed(f, rd) \in 0 .. Len(f)
<1>0. rd.at \in 0 .. Len(f)
  BY DEF Fits
<1>1. CASE ~SoundFile(f)
  <2>1. RecordErr(f, rd) # "None" /\ rd.header_err # "None"
    BY <1>1 DEF Fits, RecordErr
  <2> QED BY <1>0, <2>1 DEF Consumed
<1>2. CASE SoundFile(f) /\ IsRecord(f, rd.at)
  BY <1>0, <1>2, RoundFinds, BeyondOnward
<1>3. CASE SoundFile(f) /\ ~IsRecord(f, rd.at)
  <2>1. RecordErr(f, rd) # "None"
    BY <1>3, RoundFinds
  <2>2. Consumed(f, rd) = IF rd.header_err = "None" /\ PacketHeaderErr(f, rd) = "None"
                          THEN rd.at + PACKET_HEADER_LEN ELSE rd.at
    BY <2>1 DEF Consumed
  <2>3. PacketHeaderErr(f, rd) = "None" => ~(Len(f) - rd.at < PACKET_HEADER_LEN)
    BY DEF PacketHeaderErr, Left
  <2> QED BY <1>0, <2>2, <2>3 DEF PACKET_HEADER_LEN
<1> QED BY <1>1, <1>2, <1>3

-----------------------------------------------------------------------------
(* The capture is decoded record by record                                 *)

(* An element goes to the end of one list or to the front of the next.     *)
LEMMA AppendThen ==
    ASSUME NEW S, NEW s \in Seq(S), NEW e \in S, NEW t \in Seq(S)
    PROVE  Append(s, e) \o t = s \o (<<e>> \o t)
OBVIOUS

(* A list is a prefix of what continues it.                                *)
LEMMA PrefixOfConcat ==
    ASSUME NEW S, NEW s \in Seq(S), NEW t \in Seq(S)
    PROVE  IsPrefix(s, s \o t)
BY DEF IsPrefix

(* The records that are still ahead of the reader.                         *)
Ahead(fates) == RecordsFrom(argv, file, r.at, fates)

(* past is what was refused so far.                                        *)
Refusals(past) ==
    /\ past \o Ahead({"refused"}) = Records({"refused"})
    /\ Len(past) = r.skipped
    /\ past # <<>> => r.last_skip_err = ErrOf(file, Last(past))

Reading ==
    /\ Fits(file, r)
    /\ log \in Seq(RecordsOf(file))
    /\ r.decoded = Len(log)
    /\ ~SoundFile(file) => log = <<>> /\ r.skipped = 0
    /\ SoundFile(file) => /\ log \o Ahead({"decoded"}) = Records({"decoded"})
                          /\ \E past \in Seq(RecordsOf(file)) : Refusals(past)

KInv ==
    /\ file \in Seq(Byte)
    /\ pc \in {"args", "read", "emit", "exit"}
    /\ pc = "args" => log = <<>>
    /\ pc = "read" => Reading
    /\ pc = "emit" => CaptureExact

(* While reading, what is decoded is a prefix of what is to be.            *)
LEMMA ReadingExact ==
    ASSUME file \in Seq(Byte), Reading, pc = "read"
    PROVE  CaptureExact
<1>1. r.at <= Len(file)
  BY DEF Reading, Fits
<1>2. IsPrefix(log, Records({"decoded"}))
  <2>1. CASE SoundFile(file)
    <3>1. Ahead({"decoded"}) \in Seq(RecordsOf(file))
      BY RecordsFromType DEF Ahead, Reading, Fits
    <3>2. IsPrefix(log, log \o Ahead({"decoded"}))
      BY <3>1, PrefixOfConcat DEF Reading
    <3> QED BY <2>1, <3>2 DEF Reading
  <2>2. CASE ~SoundFile(file)
    <3>1. log = <<>> /\ Records({"decoded"}) = <<>>
      BY <2>2 DEF Reading, Records
    <3>2. <<>> \in Seq({}) /\ <<>> \o <<>> = <<>>
      OBVIOUS
    <3>3. IsPrefix(<<>>, <<>>)
      BY <3>2, PrefixOfConcat
    <3> QED BY <3>1, <3>3
  <2> QED BY <2>1, <2>2
<1> QED BY <1>1, <1>2 DEF CaptureExact

(* A round that finds a record.                                            *)
LEMMA RoundOnRecord ==
    ASSUME file \in Seq(Byte), Fits(file, r), Whole
    PROVE  LET rec == RecordAt(file, r.at)
               next == Beyond(file, r.at)
           IN  /\ SoundFile(file) /\ IsRecord(file, r.at)
               /\ Capture(file, r) = rec /\ Consumed(file, r) = next
               /\ next \in 0 .. Len(file)
               /\ rec \in RecordsOf(file)
               /\ rec.data[1] \in Byte /\ Frame = Frames[rec.data[1]]
               /\ FrameErr = ErrOf(file, rec)
<1> DEFINE rec == RecordAt(file, r.at)
<1>0. r.at \in 0 .. Len(file)
  BY DEF Fits
<1>1. SoundFile(file)
  <2>1. RecordErr(file, r) = "None"
    BY DEF Whole
  <2> QED BY <1>0, <2>1 DEF Fits, RecordErr
<1>2. /\ IsRecord(file, r.at) /\ Capture(file, r) = rec /\ Consumed(file, r) = Beyond(file, r.at)
      /\ DatalinkErr(r) = IF Number(file, 0, 5) # LINKTYPE_ETHERNET THEN "UnsupportedLinktype"
                          ELSE "None"
  BY <1>0, <1>1, RoundFinds DEF Whole
<1>3. Beyond(file, r.at) \in 0 .. Len(file)
  BY <1>0, <1>2, BeyondOnward
<1>4. rec \in RecordsOf(file)
  BY <1>0 DEF RecordsOf
<1>5. rec.data[1] \in Byte
  <2> DEFINE m == Number(file, r.at, 3)
  <2>1. m \in Nat
    <3>1. r.at \in Nat /\ r.at + 2 * 3 <= Len(file)
      BY <1>0, <1>2 DEF IsRecord, PACKET_HEADER_LEN
    <3> QED BY <3>1, NumberType
  <2>2. m >= 1 /\ r.at + PACKET_HEADER_LEN + m <= Len(file)
    <3> HIDE DEF m
    <3>1. m \in 1 .. Number(file, r.at, 4) /\ r.at + PACKET_HEADER_LEN + m <= Len(file)
      BY <1>2 DEF IsRecord, Beyond, m
    <3> QED BY <3>1, <2>1
  <2>3. rec.data = [k \in 1 .. m |-> file[r.at + PACKET_HEADER_LEN + k]]
    BY DEF RecordAt
  <2> HIDE DEF m, rec
  <2>4. 1 \in 1 .. m /\ r.at + PACKET_HEADER_LEN + 1 \in 1 .. Len(file)
    BY <1>0, <2>1, <2>2 DEF PACKET_HEADER_LEN
  <2>5. rec.data[1] = file[r.at + PACKET_HEADER_LEN + 1]
    BY <2>3, <2>4
  <2> QED BY <2>4, <2>5
<1>6. Frame = Frames[rec.data[1]]
  BY <1>2 DEF Frame
<1>7. FrameErr = ErrOf(file, rec)
  BY <1>2, <1>6 DEF FrameErr, ErrOf
<1> QED BY <1>1, <1>2, <1>3, <1>4, <1>5, <1>6, <1>7

(* The reader moves on and keeps what it knows of the file.                *)
MovesTo(next) ==
    /\ UNCHANGED <<argv, file>>
    /\ r'.at = next
    /\ r' = [x \in ReaderFields |-> r'[x]]
    /\ UNCHANGED <<r.header_err, r.endian, r.linktype, r.is_nsec>>

(* A round leaves the reader within the file.                              *)
LEMMA MovesFits ==
    ASSUME Fits(file, r), NEW next \in 0 .. Len(file), MovesTo(next)
    PROVE  Fits(file, r)'
<1>1. /\ r'.header_err = r.header_err /\ r'.endian = r.endian /\ r'.linktype = r.linktype
      /\ r'.is_nsec = r.is_nsec /\ r'.at = next /\ r' = [x \in ReaderFields |-> r'[x]]
      /\ file' = file
  BY DEF MovesTo
<1>2. Fits(file, r')
  BY <1>1 DEF Fits
<1> QED BY <1>1, <1>2

(* A round takes the record in front, if it has the fate asked for, from   *)
(* those ahead.                                                            *)
LEMMA AheadStep ==
    ASSUME file \in Seq(Byte), Fits(file, r), Whole, MovesTo(Beyond(file, r.at)), NEW fates
    PROVE  /\ Ahead(fates) = Taken(argv, file, fates, r.at) \o Ahead(fates)'
           /\ Ahead(fates)' \in Seq(RecordsOf(file))
           /\ Records(fates)' = Records(fates)
<1>0. r.at \in 0 .. Len(file)
  BY DEF Fits
<1>1. IsRecord(file, r.at) /\ Beyond(file, r.at) \in 0 .. Len(file)
  BY RoundOnRecord
<1>2. Ahead(fates)' = RecordsFrom(argv, file, Beyond(file, r.at), fates)
  BY DEF Ahead, MovesTo
<1>3. Ahead(fates) = Taken(argv, file, fates, r.at) \o Ahead(fates)'
  <2>1. RecordsFrom(argv, file, r.at, fates)
          = Taken(argv, file, fates, r.at) \o RecordsFrom(argv, file, Beyond(file, r.at), fates)
    BY <1>0, <1>1, RecordsFromIs
  <2> QED BY <1>2, <2>1 DEF Ahead
<1>4. Ahead(fates)' \in Seq(RecordsOf(file))
  BY <1>1, <1>2, RecordsFromType
<1>5. Records(fates)' = Records(fates)
  BY DEF Records, MovesTo
<1> QED BY <1>3, <1>4, <1>5

(* Nothing is taken of a record with another fate.                         *)
LEMMA AheadPassed ==
    ASSUME file \in Seq(Byte), Fits(file, r), Whole, MovesTo(Beyond(file, r.at)), NEW fates,
           Fate(argv, file, RecordAt(file, r.at)) \notin fates
    PROVE  Ahead(fates) = Ahead(fates)'
<1>1. Taken(argv, file, fates, r.at) = <<>>
  BY DEF Taken
<1>2. Ahead(fates)' \in Seq(RecordsOf(file)) /\ Ahead(fates) = <<>> \o Ahead(fates)'
  BY <1>1, AheadStep
<1> QED BY <1>2

(* A round that refuses nothing keeps what is known of the refusals.       *)
LEMMA RefusalsKept ==
    ASSUME file \in Seq(Byte), Reading, Whole, MovesTo(Beyond(file, r.at)),
           r'.skipped = r.skipped, r'.last_skip_err = r.last_skip_err,
           Fate(argv, file, RecordAt(file, r.at)) # "refused"
    PROVE  (\E past \in Seq(RecordsOf(file)) : Refusals(past))'
<1>0. Fits(file, r)
  BY DEF Reading
<1>1. SoundFile(file)
  BY <1>0, RoundOnRecord
<1>2. PICK past \in Seq(RecordsOf(file)) : Refusals(past)
  BY <1>1 DEF Reading
<1>3. Ahead({"refused"}) = Ahead({"refused"})' /\ Records({"refused"})' = Records({"refused"})
  BY <1>0, AheadStep, AheadPassed
<1>4. file' = file
  BY DEF MovesTo
<1>5. Refusals(past)'
  BY <1>2, <1>3, <1>4 DEF Refusals
<1>6. past \in Seq(RecordsOf(file'))
  BY <1>2, <1>4
<1> QED BY <1>5, <1>6

(* A record that decode refuses joins the refusals.                        *)
LEMMA SkipKeeps ==
    ASSUME KInv, SkipPacket
    PROVE  Reading'
<1> DEFINE rec == RecordAt(file, r.at)
           next == Beyond(file, r.at)
<1>1. file \in Seq(Byte) /\ Reading /\ Fits(file, r) /\ Whole
  BY DEF KInv, SkipPacket, Whole, Reading
<1>2. /\ SoundFile(file) /\ Consumed(file, r) = next /\ next \in 0 .. Len(file)
      /\ rec \in RecordsOf(file) /\ FrameErr = ErrOf(file, rec)
  BY <1>1, RoundOnRecord
<1>3. /\ r' = [r EXCEPT !.at = next, !.skipped = @ + 1, !.last_skip_err = ErrOf(file, rec)]
      /\ ErrOf(file, rec) # "None" /\ UNCHANGED <<argv, file, log>>
  BY <1>2 DEF SkipPacket, inputs, state
<1>4. r = [x \in ReaderFields |-> r[x]]
  BY <1>1 DEF Reading, Fits
<1> HIDE DEF rec, next
<1>5. /\ MovesTo(next)
      /\ r'.skipped = r.skipped + 1 /\ r'.last_skip_err = ErrOf(file, rec)
      /\ r'.decoded = r.decoded
  BY <1>3, <1>4 DEF MovesTo, ReaderFields
<1>6. Fits(file, r)'
  BY <1>1, <1>2, <1>5, MovesFits DEF Reading
<1>7. Fate(argv, file, rec) = "refused"
  BY <1>3 DEF Fate
<1>8. Ahead({"decoded"}) = Ahead({"decoded"})' /\ Records({"decoded"})' = Records({"decoded"})
  BY <1>1, <1>5, <1>7, AheadStep, AheadPassed DEF rec, next
<1>9. PICK past \in Seq(RecordsOf(file)) : Refusals(past)
  BY <1>1, <1>2 DEF Reading
<1>a. PICK e : e = rec
  OBVIOUS
<1> DEFINE now == Append(past, e)
<1>10. /\ now \in Seq(RecordsOf(file)) /\ Len(now) = Len(past) + 1 /\ now # <<>>
       /\ Last(now) = rec
  BY <1>2, <1>9, <1>a DEF Last
<1>11. Refusals(now)'
  <2>1. Taken(argv, file, {"refused"}, r.at) = <<rec>>
    BY <1>7 DEF Taken, rec
  <2>2. /\ Ahead({"refused"}) = <<rec>> \o Ahead({"refused"})'
        /\ Ahead({"refused"})' \in Seq(RecordsOf(file))
        /\ Records({"refused"})' = Records({"refused"})
    BY <1>1, <1>5, <2>1, AheadStep DEF next
  <2>3. now \o Ahead({"refused"})' = past \o Ahead({"refused"})
    <3>1. Append(past, e) \o Ahead({"refused"})' = past \o (<<e>> \o Ahead({"refused"})')
      BY <1>2, <1>9, <1>a, <2>2, AppendThen
    <3> QED BY <1>a, <2>2, <3>1
  <2>4. past \o Ahead({"refused"}) = Records({"refused"}) /\ Len(past) = r.skipped
    BY <1>9 DEF Refusals
  <2>5. Len(now) = r'.skipped
    BY <1>5, <1>10, <2>4
  <2>6. r'.last_skip_err = ErrOf(file', Last(now))
    BY <1>3, <1>5, <1>10
  <2> HIDE DEF now
  <2> QED BY <2>2, <2>3, <2>4, <2>5, <2>6 DEF Refusals
<1>12. (\E p \in Seq(RecordsOf(file)) : Refusals(p))'
  <2>1. now \in Seq(RecordsOf(file'))
    BY <1>3, <1>10
  <2> HIDE DEF now
  <2> QED BY <1>11, <2>1
<1>13. (log \o Ahead({"decoded"}))' = Records({"decoded"})'
  BY <1>1, <1>2, <1>3, <1>8 DEF Reading
<1>14. /\ log' \in Seq(RecordsOf(file')) /\ r'.decoded = Len(log')
       /\ SoundFile(file')
  BY <1>1, <1>2, <1>3, <1>5 DEF Reading
<1> QED BY <1>6, <1>12, <1>13, <1>14 DEF Reading

(* A record that the filter drops leaves no trace.                         *)
LEMMA DropKeeps ==
    ASSUME KInv, FilterAsAsked, DropPacket
    PROVE  Reading'
<1> DEFINE rec == RecordAt(file, r.at)
           next == Beyond(file, r.at)
<1>1. file \in Seq(Byte) /\ Reading /\ Fits(file, r) /\ Whole
  BY DEF KInv, DropPacket, Whole, Reading
<1>2. /\ SoundFile(file) /\ Consumed(file, r) = next /\ next \in 0 .. Len(file)
      /\ rec \in RecordsOf(file) /\ FrameErr = ErrOf(file, rec)
      /\ rec.data[1] \in Byte /\ Frame = Frames[rec.data[1]]
  BY <1>1, RoundOnRecord
<1>3. /\ r' = [r EXCEPT !.at = next] /\ UNCHANGED <<argv, file, log>>
      /\ ErrOf(file, rec) = "None" /\ Filtered(Frames[rec.data[1]])
  BY <1>2 DEF DropPacket, Dropped, inputs, state
<1>4. r = [x \in ReaderFields |-> r[x]]
  BY <1>1 DEF Reading, Fits
<1> HIDE DEF rec, next
<1>5. /\ MovesTo(next) /\ r'.decoded = r.decoded
      /\ r'.skipped = r.skipped /\ r'.last_skip_err = r.last_skip_err
  BY <1>3, <1>4 DEF MovesTo, ReaderFields
<1>6. Fits(file, r)'
  BY <1>1, <1>2, <1>5, MovesFits DEF Reading
<1>7. Fate(argv, file, rec) = "dropped"
  <2>1. Frames[rec.data[1]].err = "None"
    BY <1>3 DEF ErrOf
  <2>2. ~Wanted(argv, Frames[rec.data[1]])
    BY <1>1, <1>2, <1>3, <2>1 DEF FilterAsAsked, Whole
  <2> QED BY <1>3, <2>2 DEF Fate
<1>8. Ahead({"decoded"}) = Ahead({"decoded"})' /\ Records({"decoded"})' = Records({"decoded"})
  BY <1>1, <1>5, <1>7, AheadStep, AheadPassed DEF rec, next
<1>9. (\E p \in Seq(RecordsOf(file)) : Refusals(p))'
  BY <1>1, <1>5, <1>7, RefusalsKept DEF rec, next
<1>10. (log \o Ahead({"decoded"}))' = Records({"decoded"})'
  BY <1>1, <1>2, <1>3, <1>8 DEF Reading
<1>11. /\ log' \in Seq(RecordsOf(file')) /\ r'.decoded = Len(log')
       /\ SoundFile(file')
  BY <1>1, <1>2, <1>3, <1>5 DEF Reading
<1> QED BY <1>6, <1>9, <1>10, <1>11 DEF Reading

(* A record that is decoded joins the log.                                 *)
LEMMA DecodeKeeps ==
    ASSUME KInv, FilterAsAsked, DecodePacket
    PROVE  Reading'
<1> DEFINE rec == RecordAt(file, r.at)
           next == Beyond(file, r.at)
<1>1. file \in Seq(Byte) /\ Reading /\ Fits(file, r) /\ Whole
  BY DEF KInv, DecodePacket, Whole, Reading
<1>2. /\ SoundFile(file) /\ Consumed(file, r) = next /\ next \in 0 .. Len(file)
      /\ rec \in RecordsOf(file) /\ FrameErr = ErrOf(file, rec) /\ Capture(file, r) = rec
      /\ rec.data[1] \in Byte /\ Frame = Frames[rec.data[1]]
  BY <1>1, RoundOnRecord
<1>3. /\ r' = [r EXCEPT !.at = next, !.decoded = @ + 1] /\ UNCHANGED <<argv, file>>
      /\ log' = Append(log, rec)
      /\ ErrOf(file, rec) = "None" /\ ~Filtered(Frames[rec.data[1]])
  BY <1>2 DEF DecodePacket, inputs
<1>4. r = [x \in ReaderFields |-> r[x]]
  BY <1>1 DEF Reading, Fits
<1> HIDE DEF rec, next
<1>5. /\ MovesTo(next) /\ r'.decoded = r.decoded + 1
      /\ r'.skipped = r.skipped /\ r'.last_skip_err = r.last_skip_err
  BY <1>3, <1>4 DEF MovesTo, ReaderFields
<1>6. Fits(file, r)'
  BY <1>1, <1>2, <1>5, MovesFits DEF Reading
<1>7. Fate(argv, file, rec) = "decoded"
  <2>1. Frames[rec.data[1]].err = "None"
    BY <1>3 DEF ErrOf
  <2>2. Wanted(argv, Frames[rec.data[1]])
    BY <1>1, <1>2, <1>3, <2>1 DEF FilterAsAsked, Whole
  <2> QED BY <1>3, <2>2 DEF Fate
<1>8. /\ Ahead({"decoded"}) = <<rec>> \o Ahead({"decoded"})'
      /\ Ahead({"decoded"})' \in Seq(RecordsOf(file))
      /\ Records({"decoded"})' = Records({"decoded"})
  <2>1. Taken(argv, file, {"decoded"}, r.at) = <<rec>>
    BY <1>7 DEF Taken, rec
  <2> QED BY <1>1, <1>5, <2>1, AheadStep DEF next
<1>9. (\E p \in Seq(RecordsOf(file)) : Refusals(p))'
  BY <1>1, <1>5, <1>7, RefusalsKept DEF rec, next
<1>10. (log \o Ahead({"decoded"}))' = Records({"decoded"})'
  <2>1. log \in Seq(RecordsOf(file)) /\ log \o Ahead({"decoded"}) = Records({"decoded"})
    BY <1>1, <1>2 DEF Reading
  <2>2. Append(log, rec) \o Ahead({"decoded"})' = log \o (<<rec>> \o Ahead({"decoded"})')
    BY <1>2, <1>8, <2>1, AppendThen
  <2> QED BY <1>3, <1>8, <2>1, <2>2
<1>11. /\ log' \in Seq(RecordsOf(file')) /\ r'.decoded = Len(log')
       /\ SoundFile(file')
  BY <1>1, <1>2, <1>3, <1>5 DEF Reading
<1> QED BY <1>6, <1>9, <1>10, <1>11 DEF Reading

(* Reading starts with all records ahead.                                  *)
LEMMA OpenReads ==
    ASSUME KInv, OpenCapture
    PROVE  Reading'
<1>1. /\ file \in Seq(Byte) /\ log = <<>> /\ r' = NewReader(file)
      /\ UNCHANGED <<argv, file, log>>
  BY DEF KInv, OpenCapture, Ready, Starting, inputs, state
<1>2. /\ Fits(file, NewReader(file)) /\ NewReader(file).skipped = 0
      /\ NewReader(file).decoded = 0
      /\ SoundFile(file) => NewReader(file).at = FILE_HEADER_LEN
  BY <1>1, NewReaderFits
<1>3. Fits(file, r)' /\ r'.skipped = 0 /\ r'.decoded = 0
  BY <1>1, <1>2
<1>4. log' \in Seq(RecordsOf(file')) /\ log' = <<>> /\ r'.decoded = Len(log')
  BY <1>1, <1>3
<1>5. ASSUME SoundFile(file')
      PROVE  /\ log' \o Ahead({"decoded"})' = Records({"decoded"})'
             /\ (\E past \in Seq(RecordsOf(file)) : Refusals(past))'
  <2>1. \A fates : Ahead(fates)' = Records(fates)'
    BY <1>1, <1>2, <1>5 DEF Ahead, Records
  <2>2. r'.at \in 0 .. Len(file')
    BY <1>3 DEF Fits
  <2>3. \A fates : Ahead(fates)' \in Seq(RecordsOf(file'))
    BY <1>1, <2>2, RecordsFromType DEF Ahead
  <2>4. \A fates : <<>> \o Ahead(fates)' = Records(fates)'
    <3> TAKE fates
    <3>1. Ahead(fates)' \in Seq(RecordsOf(file'))
      BY <2>3
    <3>2. <<>> \o Ahead(fates)' = Ahead(fates)'
      BY <3>1
    <3> QED BY <2>1, <3>2
  <2>5. Refusals(<<>>)'
    BY <1>3, <2>4 DEF Refusals
  <2>6. <<>> \in Seq(RecordsOf(file'))
    OBVIOUS
  <2> QED BY <1>4, <2>4, <2>5, <2>6
<1> QED BY <1>3, <1>4, <1>5 DEF Reading

(* Reading ends with no record ahead: the log is all that was to be        *)
(* decoded.                                                                *)
LEMMA EndExact ==
    ASSUME KInv, EndOfCapture
    PROVE  CaptureExact'
<1>1. file \in Seq(Byte) /\ Reading
  BY DEF KInv, EndOfCapture
<1>2. /\ UNCHANGED <<argv, file, log>> /\ r' = [r EXCEPT !.at = Consumed(file, r)]
      /\ pc' = "emit" /\ RecordErr(file, r) # "None"
  BY DEF EndOfCapture, inputs, state
<1>3. r = [x \in ReaderFields |-> r[x]] /\ r.at \in 0 .. Len(file) /\ Fits(file, r)
  BY <1>1 DEF Reading, Fits
<1>4. /\ r'.at = Consumed(file, r) /\ r'.decoded = r.decoded /\ r'.skipped = r.skipped
      /\ r'.last_skip_err = r.last_skip_err
  BY <1>2, <1>3 DEF ReaderFields
<1>5. r'.at <= Len(file')
  <2>1. Consumed(file, r) \in 0 .. Len(file)
    BY <1>1, <1>3, ConsumedInFile
  <2> QED BY <1>2, <1>4, <2>1
<1>6. \A fates : Records(fates)' = Records(fates)
  BY <1>2 DEF Records
<1>7. log = Records({"decoded"}) /\ r.decoded = Len(log)
      /\ \E past : /\ past = Records({"refused"}) /\ Len(past) = r.skipped
                   /\ past # <<>> => r.last_skip_err = ErrOf(file, Last(past))
  <2>1. CASE SoundFile(file)
    <3>1. ~IsRecord(file, r.at)
      BY <1>1, <1>2, <1>3, <2>1, RoundFinds
    <3>2. \A fates : Ahead(fates) = <<>>
      BY <1>1, <1>3, <3>1, RecordsFromIs DEF Ahead
    <3>3. PICK past \in Seq(RecordsOf(file)) : Refusals(past)
      BY <1>1, <2>1 DEF Reading
    <3>4. past = Records({"refused"})
      <4>1. past \o <<>> = past
        BY <3>3
      <4> QED BY <3>2, <3>3, <4>1 DEF Refusals
    <3>5. log = Records({"decoded"})
      <4>1. log \in Seq(RecordsOf(file)) /\ log \o <<>> = Records({"decoded"})
        BY <1>1, <2>1, <3>2 DEF Reading
      <4> QED BY <4>1
    <3> QED BY <1>1, <3>3, <3>4, <3>5 DEF Reading, Refusals
  <2>2. CASE ~SoundFile(file)
    BY <1>1, <2>2 DEF Reading, Records
  <2> QED BY <2>1, <2>2
<1>8. IsPrefix(log, log)
  <2>1. log \in Seq(RecordsOf(file)) /\ log \o <<>> = log
    BY <1>1 DEF Reading
  <2>2. <<>> \in Seq(RecordsOf(file))
    OBVIOUS
  <2>3. IsPrefix(log, log \o <<>>)
    BY <2>1, <2>2, PrefixOfConcat
  <2> QED BY <2>1, <2>3
<1> QED BY <1>2, <1>4, <1>5, <1>6, <1>7, <1>8 DEF CaptureExact

(* KInv holds before anything is read.                                     *)
LEMMA KInit == Init => KInv
<1> SUFFICES ASSUME Init PROVE KInv
  OBVIOUS
<1>1. file \in Seq(Byte)
  BY StartsAssumption DEF Init
<1>2. pc = "args" /\ log = <<>>
  BY DEF Init
<1> QED BY <1>1, <1>2 DEF KInv, CaptureExact

(* Every step keeps KInv, when the filter does what was asked.             *)
LEMMA KStep == KInv /\ FilterAsAsked /\ [Next]_vars => KInv'
<1> SUFFICES ASSUME KInv, FilterAsAsked, [Next]_vars PROVE KInv'
  OBVIOUS
<1>0. file \in Seq(Byte) /\ file' = file
  BY DEF KInv, Next, vars, inputs, ParseArgs, Told, NoDirectory, NoCapture, NoPacketsFile,
         OpenCapture, SkipPacket, DropPacket, DecodePacket, EndOfCapture, Emit, Finish
<1>1. ASSUME Reading', pc' = "read"
      PROVE  KInv'
  BY <1>0, <1>1 DEF KInv
<1>2. CASE ParseArgs
  <2>1. pc = "args" /\ pc' = "args" /\ log' = log
    BY <1>2 DEF ParseArgs, state
  <2> QED BY <1>0, <2>1 DEF KInv, CaptureExact
<1>3. CASE Told \/ NoDirectory \/ NoCapture \/ NoPacketsFile \/ Finish
  <2>1. pc' = "exit"
    BY <1>3 DEF Told, NoDirectory, NoCapture, NoPacketsFile, Finish, Exit
  <2> QED BY <1>0, <2>1 DEF KInv, CaptureExact
<1>4. CASE OpenCapture
  <2>1. pc' = "read"
    BY <1>4 DEF OpenCapture
  <2> QED BY <1>1, <1>4, <2>1, OpenReads
<1>5. CASE SkipPacket \/ DropPacket \/ DecodePacket
  <2>1. pc' = "read"
    BY <1>5 DEF SkipPacket, DropPacket, DecodePacket, Whole
  <2> QED BY <1>1, <1>5, <2>1, SkipKeeps, DropKeeps, DecodeKeeps
<1>6. CASE EndOfCapture
  <2>1. pc' = "emit"
    BY <1>6 DEF EndOfCapture
  <2> QED BY <1>0, <1>6, <2>1, EndExact DEF KInv
<1>7. CASE \E section \in Sections : Emit(section)
  <2>1. pc = "emit" /\ UNCHANGED <<argv, file, pc, r, log>>
    BY <1>7 DEF Emit, inputs, state
  <2>2. CaptureExact'
    BY <2>1 DEF KInv, CaptureExact, Records
  <2> QED BY <1>0, <2>1, <2>2 DEF KInv
<1>8. CASE UNCHANGED vars
  <2>1. UNCHANGED <<argv, file, pc, r, log>>
    BY <1>8 DEF vars, inputs, state
  <2>2. CaptureExact => CaptureExact'
    BY <2>1 DEF CaptureExact, Records
  <2>3. Reading => Reading'
    BY <2>1 DEF Reading, Ahead, Refusals, Records
  <2> QED BY <1>0, <2>1, <2>2, <2>3 DEF KInv
<1> QED BY <1>2, <1>3, <1>4, <1>5, <1>6, <1>7, <1>8 DEF Next

(* Every capture, of any length and in any byte order, is decoded record   *)
(* by record up to the first that is unsound, when the filter drops what   *)
(* the command line does not ask for.                                      *)
THEOREM CaptureIsExact == Spec /\ []OptionsAsAsked => []CaptureExact
<1>1. OptionsAsAsked => FilterAsAsked
  BY DEF OptionsAsAsked
<1>2. KInv => CaptureExact
  BY ReadingExact DEF KInv, CaptureExact
<1> QED BY <1>1, <1>2, KInit, KStep, PTL DEF Spec

-----------------------------------------------------------------------------
(* Without filter options nothing is dropped                               *)

(* An address of zeros is no address to filter by.                         *)
LEMMA ZeroAddress ==
    ASSUME NEW n \in Nat
    PROVE  IpNumber(Zeros(n)) = 0
<1> DEFINE z == Zeros(n)
           P(g) == g = [k \in 0 .. Len(z) |-> IF k = 0 THEN 0 ELSE 256 * g[k - 1] + z[k]]
           number == CHOOSE g : P(g)
<1>1. Len(z) = n /\ \A k \in 1 .. n : z[k] = 0
  BY DEF Zeros
<1>2. IpNumber(z) = number[Len(z)]
  BY DEF IpNumber
<1> HIDE DEF z
<1>3. \E g : P(g)
  <2> DEFINE h == [k \in 0 .. n |-> 0]
  <2>1. \A k \in 0 .. n : h[k] = IF k = 0 THEN 0 ELSE 256 * h[k - 1] + z[k]
    BY <1>1
  <2>2. h = [k \in 0 .. n |-> h[k]]
    OBVIOUS
  <2> HIDE DEF h
  <2>3. h = [k \in 0 .. n |-> IF k = 0 THEN 0 ELSE 256 * h[k - 1] + z[k]]
    BY <2>1, <2>2
  <2> QED BY <1>1, <2>3
<1>4. P(number)
  <2> HIDE DEF P
  <2> QED BY <1>3
<1>5. \A k \in 0 .. n : number[k] = IF k = 0 THEN 0 ELSE 256 * number[k - 1] + z[k]
  BY <1>1, <1>4
<1> HIDE DEF number, P
<1> DEFINE T == {k \in 0 .. n : number[k] # 0}
<1>6. T = {}
  <2> SUFFICES ASSUME T # {} PROVE FALSE
    OBVIOUS
  <2>1. T \in SUBSET Nat
    OBVIOUS
  <2>2. PICK k \in T : \A y \in T : k <= y
    <3> HIDE DEF T
    <3> QED BY <2>1, LeastOf
  <2>3. k \in 1 .. n /\ number[k] # 0
    BY <1>5
  <2>4. k - 1 \in 0 .. n /\ ~(k <= k - 1)
    BY <2>3
  <2>5. number[k - 1] = 0
    BY <2>2, <2>4
  <2>6. number[k] = 256 * number[k - 1] + z[k] /\ z[k] = 0
    BY <1>1, <1>5, <2>3
  <2> QED BY <2>3, <2>5, <2>6
<1>7. n \in 0 .. n
  OBVIOUS
<1> QED BY <1>1, <1>2, <1>6, <1>7 DEF z

(* Which arguments are values: the first is none, and a valued option that *)
(* is no value makes the next one a value.                                 *)
ValueAt(args, v, k) == k > 1 /\ args[k - 1].opt \in Valued /\ ~v[k - 1]

(* Which arguments are values is settled from the first on, for any number *)
(* of them.                                                                *)
LEMMA ValuesExist ==
    ASSUME NEW args
    PROVE  \A n \in Nat : \E g : g = [k \in 1 .. n |-> ValueAt(args, g, k)]
<1> DEFINE Is(g, n) == g = [k \in 1 .. n |-> ValueAt(args, g, k)]
           T == {n \in Nat : ~\E g : Is(g, n)}
<1>1. SUFFICES ASSUME T # {} PROVE FALSE
  OBVIOUS
<1>2. PICK n \in T : \A y \in T : n <= y
  <2>1. T \in SUBSET Nat
    OBVIOUS
  <2> HIDE DEF T
  <2> QED BY <1>1, <2>1, LeastOf
<1>3. n \in Nat /\ ~\E g : Is(g, n)
  OBVIOUS
<1>4. n # 0
  <2> DEFINE h == [k \in 1 .. 0 |-> TRUE]
  <2>1. h = [k \in 1 .. 0 |-> ValueAt(args, h, k)]
    OBVIOUS
  <2>2. Is(h, 0)
    BY <2>1
  <2> QED BY <1>3, <2>2
<1>5. n - 1 \in Nat /\ ~(n <= n - 1)
  BY <1>3, <1>4
<1>6. n - 1 \notin T
  <2> HIDE DEF T
  <2> QED BY <1>2, <1>5
<1>7. PICK g : Is(g, n - 1)
  BY <1>5, <1>6
<1>8. \A k \in 1 .. n - 1 : g[k] = ValueAt(args, g, k)
  BY <1>7
<1> DEFINE h == [k \in 1 .. n |-> ValueAt(args, g, k)]
<1>9. h = [k \in 1 .. n |-> h[k]] /\ \A k \in 1 .. n : h[k] = ValueAt(args, g, k)
  OBVIOUS
<1> HIDE DEF h, Is, T
<1>10. \A k \in 1 .. n : h[k] = ValueAt(args, h, k)
  <2> TAKE k \in 1 .. n
  <2>1. k > 1 => k - 1 \in 1 .. n - 1 /\ k - 1 \in 1 .. n
    BY <1>3
  <2>2. k > 1 => g[k - 1] = h[k - 1]
    BY <1>8, <1>9, <2>1
  <2>3. ValueAt(args, g, k) = ValueAt(args, h, k)
    BY <2>2, Zenon DEF ValueAt
  <2> QED BY <1>9, <2>3
<1>11. h = [k \in 1 .. n |-> ValueAt(args, h, k)]
  BY <1>9, <1>10
<1> QED BY <1>3, <1>11 DEF Is

(* IsValue is the function its definition chooses.                         *)
LEMMA IsValueIs ==
    ASSUME NEW args \in Seq(Arguments)
    PROVE  \A k \in 1 .. Len(args) :
             IsValue(args)[k] = (k > 1 /\ args[k - 1].opt \in Valued /\ ~IsValue(args)[k - 1])
<1> DEFINE P(g) == g = [k \in 1 .. Len(args) |-> ValueAt(args, g, k)]
<1>1. IsValue(args) = CHOOSE g : P(g)
  BY DEF IsValue, ValueAt
<1>2. \E g : P(g)
  <2>1. Len(args) \in Nat
    OBVIOUS
  <2> QED BY <2>1, ValuesExist, Zenon
<1>3. P(IsValue(args))
  <2> HIDE DEF P
  <2> QED BY <1>1, <1>2
<1> DEFINE v == IsValue(args)
<1>4. v = [k \in 1 .. Len(args) |-> ValueAt(args, v, k)]
  BY <1>3
<1> HIDE DEF v
<1>5. \A k \in 1 .. Len(args) : v[k] = ValueAt(args, v, k)
  BY <1>4
<1> QED BY <1>5 DEF ValueAt, v

(* n follows o with the filter as it was, d arguments further on.          *)
Further(o, n, d) == n.filter = o.filter /\ (n.result = "more" => n.i = o.i + d)

(* The value of an option that is no filter leaves the filter alone.       *)
LEMMA TakeValueFurther ==
    ASSUME NEW o, NEW opt \in Valued \ FilterOptions, NEW s, Goes(o)
    PROVE  Further(o, TakeValue(o, opt, s), 0)
<1>0. o = [f \in OptionFields |-> o[f]] /\ o.i + 0 = o.i
  BY DEF Goes, IsOptions
<1>u. Further(o, Usage(o), 0)
  BY <1>0 DEF Further, Usage, OptionFields
<1>1. Further(o, TakeOut(o, s), 0)
  BY <1>0, <1>u DEF TakeOut, Further, OptionFields
<1>2. Further(o, TakeLimit(o, s), 0)
  BY <1>0, <1>u DEF TakeLimit, Further, OptionFields
<1>3. Further(o, TakeSeconds(o, opt, s), 0)
  BY <1>0, <1>u DEF TakeSeconds, Further, OptionFields
<1>4. opt \in {"--out", "--limit"} \cup SecondsOptions
  BY DEF Valued, FilterOptions, SecondsOptions
<1>5. opt \notin AddressOptions /\ opt \notin PortOptions /\ opt # "--proto"
  BY DEF FilterOptions
<1>6. TakeValue(o, opt, s) \in {TakeOut(o, s), TakeLimit(o, s), TakeSeconds(o, opt, s)}
  BY <1>4, <1>5 DEF TakeValue, SecondsOptions
<1> QED BY <1>1, <1>2, <1>3, <1>6

(* An argument that is no filter option leaves the filter alone, and moves *)
(* past its value.                                                         *)
LEMMA ArgumentFurther ==
    ASSUME NEW o, NEW args, Goes(o), args[o.i] \in Arguments, args[o.i].opt \notin FilterOptions
    PROVE  Further(o, Argument(o, args), IF args[o.i].opt \in Valued THEN 2 ELSE 1)
<1> DEFINE opt == args[o.i].opt
           on == [o EXCEPT !.i = @ + 1]
           v == [o EXCEPT !.i = @ + 2]
<1>0. o = [f \in OptionFields |-> o[f]] /\ o.i \in Nat
  BY DEF Goes, IsOptions
<1>u. \A d : Further(o, Usage(o), d)
  BY <1>0 DEF Further, Usage, OptionFields
<1>9. opt \in Sections \cup Valued
              \cup {"--help", "--version", "--all", "--json", "--no-checksum", "unknown", "value"}
  BY DEF Arguments
<1>10. CASE opt \in Sections
  <2>1. /\ opt \notin Valued
        /\ opt \notin {"--help", "--version", "--all", "--json", "--no-checksum", "unknown", "value"}
    BY <1>10 DEF Sections, Valued, SecondsOptions, AddressOptions, PortOptions
  <2>2. Argument(o, args) = [on EXCEPT !.show = @ \cup {opt}]
    BY <1>10, <2>1 DEF Argument
  <2>3. Further(o, [on EXCEPT !.show = @ \cup {opt}], 1)
    BY <1>0 DEF Further, OptionFields
  <2> QED BY <2>1, <2>2, <2>3
<1>11. CASE opt \in Valued
  <2>1. /\ opt \notin Sections
        /\ opt \notin {"--help", "--version", "--all", "--json", "--no-checksum", "unknown", "value"}
    BY <1>11 DEF Sections, Valued, SecondsOptions, AddressOptions, PortOptions
  <2>2. Argument(o, args) \in {Usage(o), TakeValue(v, opt, args[o.i + 1].text)}
    BY <1>11, <2>1 DEF Argument
  <2>3. Goes(v) /\ v.filter = o.filter /\ v.i = o.i + 2
    BY <1>0 DEF Goes, IsOptions, OptionFields
  <2> HIDE DEF opt, v
  <2>4. opt \in Valued \ FilterOptions
    BY <1>11 DEF opt
  <2>5. Further(v, TakeValue(v, opt, args[o.i + 1].text), 0)
    BY <2>3, <2>4, TakeValueFurther
  <2>6. Further(o, TakeValue(v, opt, args[o.i + 1].text), 2)
    BY <1>0, <2>3, <2>5 DEF Further
  <2>7. Further(o, Argument(o, args), 2)
    BY <2>2, <2>6, <1>u
  <2> QED BY <1>11, <2>7 DEF opt
<1>12. CASE opt \in {"--help", "--version", "--all", "--json", "--no-checksum", "unknown", "value"}
  <2>1. opt \notin Sections /\ opt \notin Valued
    BY <1>12 DEF Sections, Valued, SecondsOptions, AddressOptions, PortOptions
  <2>2. Argument(o, args) \in
           {[o EXCEPT !.result = "help"], [o EXCEPT !.result = "version"],
            [on EXCEPT !.show = @ \cup (Sections \ {"packets"})], [on EXCEPT !.json = TRUE],
            [on EXCEPT !.verify_checksum = FALSE], Usage(o), [on EXCEPT !.path = args[o.i].text]}
    BY <1>12, <2>1 DEF Argument
  <2>3. Further(o, [o EXCEPT !.result = "help"], 1) /\ Further(o, [o EXCEPT !.result = "version"], 1)
    BY <1>0 DEF Further, OptionFields
  <2>4. Further(o, [on EXCEPT !.show = @ \cup (Sections \ {"packets"})], 1)
    BY <1>0 DEF Further, OptionFields
  <2>5. /\ Further(o, [on EXCEPT !.json = TRUE], 1)
        /\ Further(o, [on EXCEPT !.verify_checksum = FALSE], 1)
        /\ Further(o, [on EXCEPT !.path = args[o.i].text], 1)
    BY <1>0 DEF Further, OptionFields
  <2> HIDE DEF on
  <2> QED BY <2>1, <2>2, <2>3, <2>4, <2>5, <1>u
<1> QED BY <1>9, <1>10, <1>11, <1>12

NoFilter == \A s \in Starts : Given(s.argv, FilterOptions) = {}

(* No filter was given, and parseArgs does not stand at a value.           *)
UInv ==
    /\ EInv
    /\ Given(argv, FilterOptions) = {}
    /\ opts.filter = NewOptions.filter
    /\ pc = "args" /\ opts.result = "more" /\ opts.i <= Len(argv) => ~IsValue(argv)[opts.i]

(* UInv holds before the first argument.                                   *)
LEMMA UInit == NoFilter /\ Init => UInv
<1> SUFFICES ASSUME NoFilter, Init PROVE UInv
  OBVIOUS
<1>1. EInv
  BY EInit
<1>2. Given(argv, FilterOptions) = {}
  BY DEF Init, NoFilter
<1>3. opts = NewOptions /\ opts.i = 1
  BY DEF Init, NewOptions
<1>4. 1 <= Len(argv) => ~IsValue(argv)[1]
  <2>1. argv \in Seq(Arguments)
    BY <1>1 DEF EInv
  <2> SUFFICES ASSUME 1 <= Len(argv) PROVE ~IsValue(argv)[1]
    OBVIOUS
  <2>2. 1 \in 1 .. Len(argv)
    BY <2>1
  <2>3. IsValue(argv)[1] = (1 > 1 /\ argv[1 - 1].opt \in Valued /\ ~IsValue(argv)[1 - 1])
    BY <2>1, <2>2, IsValueIs
  <2>4. ~(1 > 1)
    OBVIOUS
  <2> QED BY <2>3, <2>4, Zenon
<1> QED BY <1>1, <1>2, <1>3, <1>4 DEF UInv

(* Every step keeps UInv.                                                  *)
LEMMA UStep == UInv /\ [Next]_vars => UInv'
<1> SUFFICES ASSUME UInv, [Next]_vars PROVE UInv'
  OBVIOUS
<1>1. EInv'
  BY EStep DEF UInv
<1>2. argv' = argv
  BY DEF Next, vars, inputs, ParseArgs, Told, NoDirectory, NoCapture, NoPacketsFile,
         OpenCapture, SkipPacket, DropPacket, DecodePacket, EndOfCapture, Emit, Finish
<1>3. CASE ParseArgs
  <2>1. /\ pc = "args" /\ opts.result = "more"
        /\ opts' = IF opts.i <= Len(argv) THEN Argument(opts, argv) ELSE Selected(opts)
    BY <1>3 DEF ParseArgs
  <2>2. argv \in Seq(Arguments) /\ Decided(opts) /\ Goes(opts)
    BY <2>1 DEF UInv, EInv, Decided, Goes
  <2>3. CASE ~(opts.i <= Len(argv))
    <3>1. opts'.filter = opts.filter /\ opts'.result # "more"
      BY <2>1, <2>2, <2>3 DEF Selected, Usage, Goes, IsOptions, OptionFields
    <3> QED BY <1>1, <1>2, <3>1 DEF UInv
  <2>4. CASE opts.i <= Len(argv)
    <3> DEFINE i == opts.i
    <3>1. i \in 1 .. Len(argv) /\ argv[i] \in Arguments /\ Len(argv) \in Nat
      BY <2>2, <2>4 DEF Goes, IsOptions
    <3>2. ~IsValue(argv)[i] /\ Given(argv, FilterOptions) = {}
      BY <2>1, <2>4 DEF UInv
    <3>3. argv[i].opt \notin FilterOptions
      BY <3>1, <3>2 DEF Given
    <3>4. Further(opts, opts', IF argv[i].opt \in Valued THEN 2 ELSE 1)
      BY <2>1, <2>2, <2>4, <3>1, <3>3, ArgumentFurther
    <3>5. opts'.filter = NewOptions.filter
      BY <3>4 DEF Further, UInv
    <3> HIDE DEF i
    <3>6. \A k \in 1 .. Len(argv) :
            IsValue(argv)[k] = (k > 1 /\ argv[k - 1].opt \in Valued /\ ~IsValue(argv)[k - 1])
      BY <2>2, IsValueIs
    <3>7. ASSUME opts'.result = "more", opts'.i <= Len(argv)
          PROVE  ~IsValue(argv)[opts'.i]
      <4>1. CASE argv[i].opt \notin Valued
        <5>1. opts'.i = i + 1
          BY <3>4, <3>7, <4>1 DEF Further, i
        <5>2. i + 1 \in 1 .. Len(argv) /\ (i + 1) - 1 = i
          BY <3>1, <3>7, <5>1
        <5>3. IsValue(argv)[i + 1] =
                (i + 1 > 1 /\ argv[(i + 1) - 1].opt \in Valued /\ ~IsValue(argv)[(i + 1) - 1])
          BY <3>6, <5>2
        <5> QED BY <4>1, <5>1, <5>2, <5>3
      <4>2. CASE argv[i].opt \in Valued
        <5>1. opts'.i = i + 2
          BY <3>4, <3>7, <4>2 DEF Further, i
        <5>2. /\ i + 2 \in 1 .. Len(argv) /\ (i + 2) - 1 = i + 1
              /\ i + 1 \in 1 .. Len(argv) /\ (i + 1) - 1 = i /\ i + 1 > 1
          BY <3>1, <3>7, <5>1
        <5>3. IsValue(argv)[i + 1] =
                (i + 1 > 1 /\ argv[(i + 1) - 1].opt \in Valued /\ ~IsValue(argv)[(i + 1) - 1])
          BY <3>6, <5>2
        <5>4. IsValue(argv)[i + 2] =
                (i + 2 > 1 /\ argv[(i + 2) - 1].opt \in Valued /\ ~IsValue(argv)[(i + 2) - 1])
          BY <3>6, <5>2
        <5>5. IsValue(argv)[i + 1]
          BY <3>2, <4>2, <5>2, <5>3
        <5> QED BY <5>1, <5>2, <5>4, <5>5
      <4> QED BY <4>1, <4>2
    <3> QED BY <1>1, <1>2, <3>2, <3>5, <3>7 DEF UInv
  <2> QED BY <2>3, <2>4
<1>4. CASE ~ParseArgs
  <2>1. opts' = opts /\ (pc' = "args" => pc = "args")
    BY <1>4 DEF Next, vars, Told, NoDirectory, NoCapture, NoPacketsFile, Exit,
         OpenCapture, SkipPacket, DropPacket, DecodePacket, EndOfCapture, Emit, Finish, Whole
  <2> QED BY <1>1, <1>2, <2>1 DEF UInv
<1> QED BY <1>3, <1>4

(* With the initial filter nothing is dropped, and nothing was to be.      *)
LEMMA NothingFiltered ==
    ASSUME UInv
    PROVE  FilterAsAsked
<1>1. ASSUME NEW frame PROVE ~Filtered(frame) /\ Wanted(argv, frame)
  <2>1. \A opt \in FilterOptions : Given(argv, {opt}) = {}
    BY DEF UInv, Given
  <2>2. Wanted(argv, frame)
    BY <2>1 DEF Wanted
  <2> DEFINE f == AsNumbers(opts.filter)
  <2>3. opts.filter = [isIpv4 |-> FALSE, src_ip |-> Zeros(GROUPS), dst_ip |-> Zeros(GROUPS),
                       src_port |-> 0, dst_port |-> 0, protocol |-> 0]
    BY DEF UInv, NewOptions
  <2>4. GROUPS \in Nat
    BY AddressAssumption
  <2>5. IpNumber(Zeros(GROUPS)) = 0
    BY <2>4, ZeroAddress
  <2>6. f.src_ip = 0 /\ f.dst_ip = 0 /\ f.src_port = 0 /\ f.dst_port = 0 /\ f.protocol = 0
    BY <2>3, <2>5 DEF AsNumbers
  <2> HIDE DEF f
  <2>7. ~FT!IsNonZero(f)
    BY <2>6 DEF FT!IsNonZero
  <2> QED BY <2>2, <2>7 DEF Filtered, f
<1> QED BY <1>1 DEF FilterAsAsked

(* With no filter option on the command line, every capture is decoded     *)
(* record by record, whatever else is asked for.                           *)
THEOREM UnfilteredCaptureIsExact ==
    ASSUME \A s \in Starts : Given(s.argv, FilterOptions) = {}
    PROVE  Spec => []CaptureExact
<1>1. NoFilter
  BY DEF NoFilter
<1>2. Init => UInv
  BY <1>1, UInit
<1>3. KInv => CaptureExact
  BY ReadingExact DEF KInv, CaptureExact
<1>4. UInv => FilterAsAsked
  BY NothingFiltered
<1> QED BY <1>2, <1>3, <1>4, UStep, KInit, KStep, PTL DEF Spec

-----------------------------------------------------------------------------
(* Phases                                                                  *)

(* c is b after phase p ran once, with nothing timed inside it.            *)
Once(b, c, p) ==
    /\ c \in Benchmarks /\ c.detailed = b.detailed /\ c.now = b.now + 2
    /\ \A q \in Phases \ {p} : c.phases[q] = b.phases[q]
    /\ c.phases[p].calls = b.phases[p].calls + 1
    /\ c.phases[p].elapsed_ns = b.phases[p].elapsed_ns + 1
    /\ ~c.phases[p].running

(* A phase's record with some fields replaced.                             *)
LEMMA StartFields ==
    ASSUME NEW x \in PhaseStates, NEW t \in Nat
    PROVE  LET y == [x EXCEPT !.started = t, !.running = TRUE]
           IN  /\ y \in PhaseStates /\ y.calls = x.calls /\ y.elapsed_ns = x.elapsed_ns
               /\ y.started = t /\ y.running
BY DEF PhaseStates

(* A phase that starts.                                                    *)
LEMMA StartIs ==
    ASSUME NEW b \in Benchmarks, NEW p \in Phases, ~Ignored(b, p)
    PROVE  LET c == Start(b, p)
           IN  /\ c \in Benchmarks /\ c.detailed = b.detailed /\ c.now = b.now + 1
               /\ \A q \in Phases \ {p} : c.phases[q] = b.phases[q]
               /\ c.phases[p].calls = b.phases[p].calls
               /\ c.phases[p].elapsed_ns = b.phases[p].elapsed_ns
               /\ c.phases[p].started = b.now + 1
               /\ c.phases[p].running
<1> DEFINE x == b.phases[p]
           y == [x EXCEPT !.started = b.now + 1, !.running = TRUE]
           c == Start(b, p)
<1>1. x \in PhaseStates /\ b.now \in Nat /\ b.detailed \in BOOLEAN /\ b.phases \in [Phases -> PhaseStates]
  BY DEF Benchmarks
<1>2. y \in PhaseStates /\ y.calls = x.calls /\ y.elapsed_ns = x.elapsed_ns
      /\ y.started = b.now + 1 /\ y.running
  <2>1. b.now + 1 \in Nat
    BY <1>1
  <2> HIDE DEF x
  <2> QED BY <1>1, <2>1, StartFields, Zenon
<1>3. c = [b EXCEPT !.now = b.now + 1, !.phases = [b.phases EXCEPT ![p] = y]]
  BY <1>1 DEF Start, Benchmarks, PhaseStates
<1>b. b = [detailed |-> b.detailed, now |-> b.now, phases |-> b.phases]
  BY DEF Benchmarks
<1> HIDE DEF x, y, c
<1>4. c.detailed = b.detailed /\ c.now = b.now + 1 /\ c.phases = [b.phases EXCEPT ![p] = y]
      /\ c \in Benchmarks
  <2>1. c = [detailed |-> b.detailed, now |-> b.now + 1, phases |-> [b.phases EXCEPT ![p] = y]]
    BY <1>3, <1>b, Zenon
  <2>2. [b.phases EXCEPT ![p] = y] \in [Phases -> PhaseStates]
    BY <1>1, <1>2
  <2> QED BY <1>1, <2>1, <2>2 DEF Benchmarks
<1>5. c.phases[p] = y /\ \A q \in Phases \ {p} : c.phases[q] = b.phases[q]
  BY <1>1, <1>4
<1> QED BY <1>2, <1>4, <1>5 DEF c, x

(* A running phase that stops.                                             *)
LEMMA StopIs ==
    ASSUME NEW b \in Benchmarks, NEW p \in Phases, ~Ignored(b, p), b.phases[p].running,
           b.phases[p].started <= b.now
    PROVE  LET c == Stop(b, p)
           IN  /\ c \in Benchmarks /\ c.detailed = b.detailed /\ c.now = b.now + 1
               /\ \A q \in Phases \ {p} : c.phases[q] = b.phases[q]
               /\ c.phases[p].calls = b.phases[p].calls + 1
               /\ c.phases[p].elapsed_ns = b.phases[p].elapsed_ns + (b.now + 1 - b.phases[p].started)
               /\ ~c.phases[p].running
<1> DEFINE x == b.phases[p]
           y == [x EXCEPT !.running = FALSE,
                          !.elapsed_ns = x.elapsed_ns + (b.now + 1 - x.started),
                          !.calls = x.calls + 1]
           c == Stop(b, p)
<1>1. x \in PhaseStates /\ b.now \in Nat /\ b.detailed \in BOOLEAN /\ b.phases \in [Phases -> PhaseStates]
      /\ x.running /\ x.started <= b.now
  BY DEF Benchmarks
<1>2. y \in PhaseStates /\ y.calls = x.calls + 1 /\ ~y.running
      /\ y.elapsed_ns = x.elapsed_ns + (b.now + 1 - x.started)
  <2> HIDE DEF x
  <2>1. x.calls + 1 \in Nat /\ x.elapsed_ns + (b.now + 1 - x.started) \in Nat
    BY <1>1 DEF PhaseStates
  <2>2. PICK m \in Nat : m = x.elapsed_ns + (b.now + 1 - x.started)
    BY <2>1
  <2>3. PICK n \in Nat : n = x.calls + 1
    BY <2>1
  <2>4. y = [x EXCEPT !.running = FALSE, !.elapsed_ns = m, !.calls = n]
    BY <2>2, <2>3
  <2> HIDE DEF y
  <2>5. y \in PhaseStates /\ y.calls = n /\ y.elapsed_ns = m /\ ~y.running
    BY <1>1, <2>4 DEF PhaseStates
  <2> QED BY <2>2, <2>3, <2>5
<1>3. c = [b EXCEPT !.now = b.now + 1, !.phases = [b.phases EXCEPT ![p] = y]]
  BY <1>1 DEF Stop, Benchmarks, PhaseStates
<1>b. b = [detailed |-> b.detailed, now |-> b.now, phases |-> b.phases]
  BY DEF Benchmarks
<1> HIDE DEF x, y, c
<1>4. c.detailed = b.detailed /\ c.now = b.now + 1 /\ c.phases = [b.phases EXCEPT ![p] = y]
      /\ c \in Benchmarks
  <2>1. c = [detailed |-> b.detailed, now |-> b.now + 1, phases |-> [b.phases EXCEPT ![p] = y]]
    BY <1>3, <1>b, Zenon
  <2>2. [b.phases EXCEPT ![p] = y] \in [Phases -> PhaseStates]
    BY <1>1, <1>2
  <2> QED BY <1>1, <2>1, <2>2 DEF Benchmarks
<1>5. c.phases[p] = y /\ \A q \in Phases \ {p} : c.phases[q] = b.phases[q]
  BY <1>1, <1>4
<1> QED BY <1>2, <1>4, <1>5 DEF c, x

(* A phase started and stopped around nothing ran once, unless ignored.    *)
LEMMA AroundIs ==
    ASSUME NEW b \in Benchmarks, NEW p \in Phases
    PROVE  IF Ignored(b, p) THEN Around(p)[b] = b ELSE Once(b, Around(p)[b], p)
<1> DEFINE a == Start(b, p)
           c == Stop(a, p)
<1>0. Around(p)[b] = c
  BY DEF Around
<1>1. CASE Ignored(b, p)
  BY <1>0, <1>1 DEF Start, Stop
<1>2. CASE ~Ignored(b, p)
  <2>1. /\ a \in Benchmarks /\ a.detailed = b.detailed /\ a.now = b.now + 1
        /\ \A q \in Phases \ {p} : a.phases[q] = b.phases[q]
        /\ a.phases[p].calls = b.phases[p].calls
        /\ a.phases[p].elapsed_ns = b.phases[p].elapsed_ns
        /\ a.phases[p].started = b.now + 1
        /\ a.phases[p].running
    BY <1>2, StartIs
  <2>2. b.now \in Nat /\ b.phases[p].elapsed_ns \in Nat
    BY DEF Benchmarks, PhaseStates
  <2> HIDE DEF a
  <2>3. ~Ignored(a, p)
    BY <1>2, <2>1 DEF Ignored
  <2>4. a.phases[p].started <= a.now
    BY <2>1, <2>2
  <2>5. /\ c \in Benchmarks /\ c.detailed = a.detailed /\ c.now = a.now + 1
        /\ \A q \in Phases \ {p} : c.phases[q] = a.phases[q]
        /\ c.phases[p].calls = a.phases[p].calls + 1
        /\ c.phases[p].elapsed_ns = a.phases[p].elapsed_ns + (a.now + 1 - a.phases[p].started)
        /\ ~c.phases[p].running
    BY <2>1, <2>3, <2>4, StopIs
  <2> HIDE DEF c
  <2>6. c.now = b.now + 2 /\ c.phases[p].elapsed_ns = b.phases[p].elapsed_ns + 1
    BY <2>1, <2>2, <2>5
  <2>7. Once(b, c, p)
    BY <2>1, <2>5, <2>6 DEF Once
  <2> QED BY <1>0, <1>2, <2>7
<1> QED BY <1>1, <1>2

(* Between two calls: nothing runs but Total, if that does, and the phases *)
(* inside another one took no longer than it has.                          *)
Clocked(b, on) ==
    /\ b \in Benchmarks
    /\ \A p \in Phases \ {"Total"} : ~b.phases[p].running
    /\ b.phases["Total"].running <=> on
    /\ ~b.detailed => \A p \in PerPacket : b.phases[p].calls = 0
    /\ b.phases["DecodePacket"].elapsed_ns + b.phases["FlowLookup"].elapsed_ns
          + b.phases["TcpReassembly"].elapsed_ns + b.phases["AppDecode"].elapsed_ns
          <= b.phases["Decode"].elapsed_ns
    /\ on => b.phases["Total"].started + b.phases["PacketHeader"].elapsed_ns
                + b.phases["Decode"].elapsed_ns <= b.now

(* Each phase keeps numbers.                                               *)
LEMMA PhaseNumbers ==
    ASSUME NEW b \in Benchmarks
    PROVE  /\ b.now \in Nat /\ b.detailed \in BOOLEAN
           /\ \A p \in Phases : /\ b.phases[p].calls \in Nat /\ b.phases[p].elapsed_ns \in Nat
                                /\ b.phases[p].started \in Nat
BY DEF Benchmarks, PhaseStates

(* The names of the phases.                                                *)
LEMMA PhaseNames ==
    /\ PerPacket \subseteq Phases
    /\ \A p \in {"PacketHeader", "Decode", "DecodePacket", "FlowLookup", "TcpReassembly",
                 "AppDecode"} : p \in PerPacket /\ p \in Phases /\ p # "Total"
    /\ "Total" \in Phases /\ "FileHeader" \in Phases
    /\ "Total" \notin PerPacket /\ "FileHeader" \notin PerPacket
BY DEF Phases, PerPacket

(* Reading a packet header runs PacketHeader once, unless nothing is left  *)
(* to read.                                                                *)
LEMMA HeaderClocked ==
    ASSUME NEW b, Clocked(b, TRUE), NEW f, NEW rd
    PROVE  LET c == HeaderTimed(b, f, rd)
           IN  /\ Clocked(c, TRUE) /\ c.detailed = b.detailed
               /\ \A p \in Phases \ {"PacketHeader"} : c.phases[p].calls = b.phases[p].calls
               /\ b.detailed => c.phases["PacketHeader"].calls
                                  = b.phases["PacketHeader"].calls
                                    + (IF Untouched(f, rd) THEN 0 ELSE 1)
<1> DEFINE c == HeaderTimed(b, f, rd)
<1>0. b \in Benchmarks
  BY DEF Clocked
<1>n. b.phases["PacketHeader"].calls \in Nat
  BY <1>0, PhaseNumbers, PhaseNames
<1>1. CASE Untouched(f, rd) \/ ~b.detailed
  <2>1. c = b
    <3>1. ~b.detailed => Ignored(b, "PacketHeader")
      BY PhaseNames DEF Ignored
    <3>2. ~b.detailed => Around("PacketHeader")[b] = b
      BY <1>0, <3>1, AroundIs, PhaseNames
    <3> QED BY <1>1, <3>2 DEF HeaderTimed
  <2> HIDE DEF c
  <2>2. b.detailed => Untouched(f, rd)
    BY <1>1
  <2>3. Clocked(c, TRUE) /\ c.phases = b.phases /\ c.detailed = b.detailed
    BY <2>1
  <2>4. b.phases["PacketHeader"].calls = b.phases["PacketHeader"].calls + 0
    BY <1>n
  <2> QED BY <2>2, <2>3, <2>4 DEF c
<1>2. CASE ~Untouched(f, rd) /\ b.detailed
  <2>1. c = Around("PacketHeader")[b]
    BY <1>2 DEF HeaderTimed
  <2>2. ~Ignored(b, "PacketHeader")
    BY <1>2 DEF Ignored
  <2>3. Once(b, c, "PacketHeader")
    BY <1>0, <2>1, <2>2, AroundIs, PhaseNames
  <2> HIDE DEF c
  <2>4. \A p \in Phases \ {"PacketHeader"} : c.phases[p] = b.phases[p]
    BY <2>3 DEF Once
  <2>5. /\ c.phases["PacketHeader"].elapsed_ns = b.phases["PacketHeader"].elapsed_ns + 1
        /\ c.now = b.now + 2 /\ c \in Benchmarks /\ c.detailed = b.detailed
        /\ ~c.phases["PacketHeader"].running
        /\ c.phases["PacketHeader"].calls = b.phases["PacketHeader"].calls + 1
    BY <2>3 DEF Once
  <2>6. /\ c.phases["Total"] = b.phases["Total"] /\ c.phases["Decode"] = b.phases["Decode"]
        /\ c.phases["DecodePacket"] = b.phases["DecodePacket"]
        /\ c.phases["FlowLookup"] = b.phases["FlowLookup"]
        /\ c.phases["TcpReassembly"] = b.phases["TcpReassembly"]
        /\ c.phases["AppDecode"] = b.phases["AppDecode"]
    BY <2>4, PhaseNames
  <2>7. c.phases["Total"].started + c.phases["PacketHeader"].elapsed_ns
                + c.phases["Decode"].elapsed_ns <= c.now
    <3>1. b.phases["Total"].started + b.phases["PacketHeader"].elapsed_ns
                + b.phases["Decode"].elapsed_ns <= b.now
      BY DEF Clocked
    <3> QED BY <1>0, <2>5, <2>6, <3>1, PhaseNumbers, PhaseNames
  <2>8. \A p \in Phases \ {"Total"} : ~c.phases[p].running
    BY <2>4, <2>5 DEF Clocked
  <2>9. Clocked(c, TRUE)
    BY <1>2, <2>5, <2>6, <2>7, <2>8 DEF Clocked
  <2> QED BY <1>2, <2>4, <2>5, <2>9 DEF c
<1> QED BY <1>1, <1>2

(* c is b after phase p ran k times in a row, with nothing timed inside.   *)
Ran(b, c, p, k) ==
    /\ c \in Benchmarks /\ c.detailed = b.detailed /\ c.now = b.now + 2 * k
    /\ \A q \in Phases \ {p} : c.phases[q] = b.phases[q]
    /\ c.phases[p].calls = b.phases[p].calls + k
    /\ c.phases[p].elapsed_ns = b.phases[p].elapsed_ns + k
    /\ ~b.phases[p].running => ~c.phases[p].running

(* A phase that runs under a condition.                                    *)
LEMMA RanIf ==
    ASSUME NEW b \in Benchmarks, b.detailed, NEW p \in Phases, NEW on \in BOOLEAN, NEW c,
           c = IF on THEN Around(p)[b] ELSE b
    PROVE  Ran(b, c, p, IF on THEN 1 ELSE 0)
<1>0. ~Ignored(b, p)
  BY DEF Ignored
<1>1. CASE on
  <2>1. Once(b, c, p)
    BY <1>0, <1>1, AroundIs
  <2>2. b.now + 2 = b.now + 2 * 1
    BY PhaseNumbers
  <2>3. Ran(b, c, p, 1)
    BY <2>1, <2>2 DEF Once, Ran
  <2>4. (IF on THEN 1 ELSE 0) = 1
    BY <1>1
  <2> QED BY <2>3, <2>4
<1>2. CASE ~on
  <2>1. c = b
    BY <1>2
  <2>2. b.now = b.now + 2 * 0 /\ b.phases[p].calls = b.phases[p].calls + 0
        /\ b.phases[p].elapsed_ns = b.phases[p].elapsed_ns + 0
    BY PhaseNumbers
  <2> QED BY <1>2, <2>1, <2>2 DEF Ran
<1> QED BY <1>1, <1>2

(* What the phases of Decoder::decode add when they are timed.             *)
DecodeAdds(b, c, looks, tracks, assembles) ==
    /\ c.phases["Decode"].calls = b.phases["Decode"].calls + 1
    /\ c.phases["DecodePacket"].calls = b.phases["DecodePacket"].calls + 1
    /\ c.phases["PacketHeader"].calls = b.phases["PacketHeader"].calls
    /\ c.phases["FlowLookup"].calls = b.phases["FlowLookup"].calls + (IF looks THEN 1 ELSE 0)
    /\ c.phases["AppDecode"].calls = b.phases["AppDecode"].calls + (IF tracks THEN 1 ELSE 0)
    /\ c.phases["TcpReassembly"].calls
          = b.phases["TcpReassembly"].calls + (IF assembles THEN 1 ELSE 0)

(* decode runs each of its phases as often as the packet gets that far.    *)
LEMMA DecodeClocked ==
    ASSUME NEW b, Clocked(b, TRUE), b.detailed, NEW refused \in BOOLEAN, NEW has_flow \in BOOLEAN,
           NEW is_tcp \in BOOLEAN
    PROVE  LET c == DecodeTimed(b, refused, has_flow, is_tcp)
           IN  /\ Clocked(c, TRUE) /\ c.detailed
               /\ DecodeAdds(b, c, ~refused, ~refused /\ has_flow, ~refused /\ has_flow /\ is_tcp)
<1> DEFINE b0 == Start(b, "Decode")
           b1 == Around("DecodePacket")[b0]
           b2 == IF ~refused THEN Around("FlowLookup")[b1] ELSE b1
           b3 == IF ~refused /\ has_flow /\ is_tcp THEN Around("TcpReassembly")[b2] ELSE b2
           b4 == IF ~refused /\ has_flow THEN Around("AppDecode")[b3] ELSE b3
           c  == DecodeTimed(b, refused, has_flow, is_tcp)
           k2 == IF ~refused THEN 1 ELSE 0
           k3 == IF ~refused /\ has_flow /\ is_tcp THEN 1 ELSE 0
           k4 == IF ~refused /\ has_flow THEN 1 ELSE 0
<1>1. c = Stop(b4, "Decode")
  BY DEF DecodeTimed
<1>2. b \in Benchmarks
  BY DEF Clocked
<1>3. ~Ignored(b, "Decode")
  BY DEF Ignored
<1>4. /\ b0 \in Benchmarks /\ b0.detailed = b.detailed /\ b0.now = b.now + 1
      /\ \A q \in Phases \ {"Decode"} : b0.phases[q] = b.phases[q]
      /\ b0.phases["Decode"].calls = b.phases["Decode"].calls
      /\ b0.phases["Decode"].elapsed_ns = b.phases["Decode"].elapsed_ns
      /\ b0.phases["Decode"].started = b.now + 1
      /\ b0.phases["Decode"].running
  BY <1>2, <1>3, StartIs, PhaseNames
<1> HIDE DEF b0
<1>5. Ran(b0, b1, "DecodePacket", 1)
  <2>1. b1 = IF TRUE THEN Around("DecodePacket")[b0] ELSE b0
    OBVIOUS
  <2> HIDE DEF b1
  <2>2. Ran(b0, b1, "DecodePacket", IF TRUE THEN 1 ELSE 0)
    BY <1>4, <2>1, RanIf, PhaseNames
  <2> QED BY <2>2
<1> HIDE DEF b1
<1>6. Ran(b1, b2, "FlowLookup", k2)
  <2>1. b1 \in Benchmarks /\ b1.detailed
    BY <1>4, <1>5 DEF Ran
  <2> QED BY <2>1, RanIf, PhaseNames
<1> HIDE DEF b2
<1>7. Ran(b2, b3, "TcpReassembly", k3)
  <2>1. b2 \in Benchmarks /\ b2.detailed
    BY <1>4, <1>5, <1>6 DEF Ran
  <2> QED BY <2>1, RanIf, PhaseNames
<1> HIDE DEF b3
<1>8. Ran(b3, b4, "AppDecode", k4)
  <2>1. b3 \in Benchmarks /\ b3.detailed
    BY <1>4, <1>5, <1>6, <1>7 DEF Ran
  <2> QED BY <2>1, RanIf, PhaseNames
<1> HIDE DEF b4
<1>9. k2 \in Nat /\ k3 \in Nat /\ k4 \in Nat
  OBVIOUS
<1> DEFINE k == 1 + k2 + k3 + k4
<1>10. /\ b4 \in Benchmarks /\ b4.detailed /\ b4.now = b.now + 1 + 2 * k
       /\ b4.phases["Decode"].calls = b.phases["Decode"].calls
       /\ b4.phases["Decode"].elapsed_ns = b.phases["Decode"].elapsed_ns
       /\ b4.phases["Decode"].started = b.now + 1 /\ b4.phases["Decode"].running
       /\ \A q \in {"Total", "FileHeader", "PacketHeader"} : b4.phases[q] = b.phases[q]
       /\ b4.phases["DecodePacket"].calls = b.phases["DecodePacket"].calls + 1
       /\ b4.phases["DecodePacket"].elapsed_ns = b.phases["DecodePacket"].elapsed_ns + 1
       /\ b4.phases["FlowLookup"].calls = b.phases["FlowLookup"].calls + k2
       /\ b4.phases["FlowLookup"].elapsed_ns = b.phases["FlowLookup"].elapsed_ns + k2
       /\ b4.phases["TcpReassembly"].calls = b.phases["TcpReassembly"].calls + k3
       /\ b4.phases["TcpReassembly"].elapsed_ns = b.phases["TcpReassembly"].elapsed_ns + k3
       /\ b4.phases["AppDecode"].calls = b.phases["AppDecode"].calls + k4
       /\ b4.phases["AppDecode"].elapsed_ns = b.phases["AppDecode"].elapsed_ns + k4
       /\ \A q \in {"DecodePacket", "FlowLookup", "TcpReassembly", "AppDecode"} :
             ~b4.phases[q].running
  <2> HIDE DEF k2, k3, k4
  <2>0. b.now \in Nat
    BY <1>2, PhaseNumbers
  <2>1. \A q \in {"DecodePacket", "FlowLookup", "TcpReassembly", "AppDecode"} : ~b.phases[q].running
    BY PhaseNames DEF Clocked
  <2>2. b4 \in Benchmarks /\ b4.detailed /\ b4.now = b.now + 1 + 2 * k
    BY <1>4, <1>5, <1>6, <1>7, <1>8, <1>9, <2>0 DEF Ran
  <2>3. \A q \in {"Decode", "Total", "FileHeader", "PacketHeader"} : b4.phases[q] = b0.phases[q]
    BY <1>5, <1>6, <1>7, <1>8, PhaseNames DEF Ran
  <2>4. \A q \in {"Total", "FileHeader", "PacketHeader"} : b4.phases[q] = b.phases[q]
    BY <1>4, <2>3, PhaseNames
  <2>5. b4.phases["DecodePacket"] = b1.phases["DecodePacket"] /\ b0.phases["DecodePacket"] = b.phases["DecodePacket"]
    BY <1>4, <1>6, <1>7, <1>8, PhaseNames DEF Ran
  <2>6. b4.phases["FlowLookup"] = b2.phases["FlowLookup"] /\ b1.phases["FlowLookup"] = b.phases["FlowLookup"]
    BY <1>4, <1>5, <1>7, <1>8, PhaseNames DEF Ran
  <2>7. b4.phases["TcpReassembly"] = b3.phases["TcpReassembly"] /\ b2.phases["TcpReassembly"] = b.phases["TcpReassembly"]
    BY <1>4, <1>5, <1>6, <1>8, PhaseNames DEF Ran
  <2>8. b3.phases["AppDecode"] = b.phases["AppDecode"]
    BY <1>4, <1>5, <1>6, <1>7, PhaseNames DEF Ran
  <2>9. b4.phases["Decode"] = b0.phases["Decode"]
    BY <2>3
  <2>10. ~b4.phases["DecodePacket"].running /\ ~b4.phases["FlowLookup"].running
         /\ ~b4.phases["TcpReassembly"].running /\ ~b4.phases["AppDecode"].running
    BY <1>5, <1>6, <1>7, <1>8, <2>1, <2>5, <2>6, <2>7, <2>8 DEF Ran
  <2>11. /\ b4.phases["DecodePacket"].calls = b.phases["DecodePacket"].calls + 1
         /\ b4.phases["DecodePacket"].elapsed_ns = b.phases["DecodePacket"].elapsed_ns + 1
         /\ b4.phases["FlowLookup"].calls = b.phases["FlowLookup"].calls + k2
         /\ b4.phases["FlowLookup"].elapsed_ns = b.phases["FlowLookup"].elapsed_ns + k2
    BY <1>5, <1>6, <2>5, <2>6 DEF Ran
  <2>12. /\ b4.phases["TcpReassembly"].calls = b.phases["TcpReassembly"].calls + k3
         /\ b4.phases["TcpReassembly"].elapsed_ns = b.phases["TcpReassembly"].elapsed_ns + k3
         /\ b4.phases["AppDecode"].calls = b.phases["AppDecode"].calls + k4
         /\ b4.phases["AppDecode"].elapsed_ns = b.phases["AppDecode"].elapsed_ns + k4
    BY <1>7, <1>8, <2>7, <2>8 DEF Ran
  <2> HIDE DEF k
  <2> QED BY <1>4, <2>2, <2>4, <2>9, <2>10, <2>11, <2>12
<1>11. k \in Nat /\ b.now \in Nat
  BY <1>2, <1>9, PhaseNumbers
<1>12. /\ c \in Benchmarks /\ c.detailed = b4.detailed /\ c.now = b4.now + 1
       /\ \A q \in Phases \ {"Decode"} : c.phases[q] = b4.phases[q]
       /\ c.phases["Decode"].calls = b4.phases["Decode"].calls + 1
       /\ c.phases["Decode"].elapsed_ns
            = b4.phases["Decode"].elapsed_ns + (b4.now + 1 - b4.phases["Decode"].started)
       /\ ~c.phases["Decode"].running
  <2> HIDE DEF c, k, k2, k3, k4
  <2>1. ~Ignored(b4, "Decode")
    BY <1>10 DEF Ignored
  <2>2. b4.phases["Decode"].started <= b4.now
    BY <1>10, <1>11
  <2> QED BY <1>1, <1>10, <2>1, <2>2, StopIs, PhaseNames
<1> HIDE DEF c
<1>13. /\ c.phases["Total"] = b.phases["Total"] /\ c.phases["PacketHeader"] = b.phases["PacketHeader"]
       /\ c.phases["DecodePacket"] = b4.phases["DecodePacket"]
       /\ c.phases["FlowLookup"] = b4.phases["FlowLookup"]
       /\ c.phases["TcpReassembly"] = b4.phases["TcpReassembly"]
       /\ c.phases["AppDecode"] = b4.phases["AppDecode"]
       /\ c.phases["FileHeader"] = b.phases["FileHeader"]
  <2> HIDE DEF k, k2, k3, k4
  <2> QED BY <1>10, <1>12, PhaseNames
<1>14. c.now = b.now + 2 + 2 * k
       /\ c.phases["Decode"].elapsed_ns = b.phases["Decode"].elapsed_ns + 1 + 2 * k
  <2> HIDE DEF k, k2, k3, k4
  <2>1. b.phases["Decode"].elapsed_ns \in Nat
    BY <1>2, PhaseNumbers, PhaseNames
  <2> QED BY <1>10, <1>11, <1>12, <2>1
<1>15. DecodeAdds(b, c, ~refused, ~refused /\ has_flow, ~refused /\ has_flow /\ is_tcp)
  BY <1>10, <1>12, <1>13 DEF DecodeAdds
<1>16. Clocked(c, TRUE)
  <2>0. /\ b.phases["Decode"].elapsed_ns \in Nat /\ b.phases["DecodePacket"].elapsed_ns \in Nat
        /\ b.phases["FlowLookup"].elapsed_ns \in Nat /\ b.phases["AppDecode"].elapsed_ns \in Nat
        /\ b.phases["TcpReassembly"].elapsed_ns \in Nat
        /\ b.phases["PacketHeader"].elapsed_ns \in Nat /\ b.phases["Total"].started \in Nat
    BY <1>2, PhaseNumbers, PhaseNames
  <2>1. \A p \in Phases \ {"Total"} : ~c.phases[p].running
    <3>1. \A p \in {"FileHeader", "PacketHeader"} : ~b.phases[p].running
      BY PhaseNames DEF Clocked
    <3> HIDE DEF k, k2, k3, k4
    <3> QED BY <1>10, <1>12, <1>13, <3>1 DEF Phases, PerPacket
  <2>2. c.phases["DecodePacket"].elapsed_ns + c.phases["FlowLookup"].elapsed_ns
          + c.phases["TcpReassembly"].elapsed_ns + c.phases["AppDecode"].elapsed_ns
          <= c.phases["Decode"].elapsed_ns
    <3>1. b.phases["DecodePacket"].elapsed_ns + b.phases["FlowLookup"].elapsed_ns
          + b.phases["TcpReassembly"].elapsed_ns + b.phases["AppDecode"].elapsed_ns
          <= b.phases["Decode"].elapsed_ns
      BY DEF Clocked
    <3> HIDE DEF k2, k3, k4
    <3> QED BY <1>9, <1>10, <1>13, <1>14, <2>0, <3>1
  <2>3. c.phases["Total"].started + c.phases["PacketHeader"].elapsed_ns
                + c.phases["Decode"].elapsed_ns <= c.now
    <3>1. b.phases["Total"].started + b.phases["PacketHeader"].elapsed_ns
                + b.phases["Decode"].elapsed_ns <= b.now
      BY DEF Clocked
    <3> HIDE DEF k
    <3> QED BY <1>11, <1>13, <1>14, <2>0, <3>1
  <2>4. c.detailed /\ c \in Benchmarks
    <3> HIDE DEF k, k2, k3, k4
    <3> QED BY <1>10, <1>12
  <2>5. c.phases["Total"].running
    BY <1>13 DEF Clocked
  <2> QED BY <2>1, <2>2, <2>3, <2>4, <2>5 DEF Clocked
<1>17. c.detailed
  <2> HIDE DEF k, k2, k3, k4
  <2> QED BY <1>10, <1>12
<1> QED BY <1>15, <1>16, <1>17 DEF c

(* Without -b it adds nothing.                                             *)
LEMMA DecodeUntimed ==
    ASSUME NEW b \in Benchmarks, ~b.detailed, NEW refused, NEW has_flow, NEW is_tcp
    PROVE  DecodeTimed(b, refused, has_flow, is_tcp) = b
<1>1. \A p \in PerPacket : Ignored(b, p)
  BY DEF Ignored
<1>2. \A p \in PerPacket : Start(b, p) = b /\ Stop(b, p) = b
  BY <1>1 DEF Start, Stop
<1>3. \A p \in PerPacket : Around(p)[b] = b
  BY <1>1, AroundIs, PhaseNames
<1> QED BY <1>2, <1>3, PhaseNames DEF DecodeTimed

-----------------------------------------------------------------------------
(* Sums                                                                    *)

(* What SumFunction folds: the sum over s takes any element of s and adds  *)
(* the sum over the others.                                                *)
AnyOf(s) == CHOOSE x \in s : TRUE
IsSum(f, g) == g = [s \in SUBSET DOMAIN f |-> IF s = {} THEN 0 ELSE f[AnyOf(s)] + g[s \ {AnyOf(s)}]]

(* f[x] units for each x of s: as many as the sum over s says.             *)
Units(f, s) == {p \in s \X Nat : 1 <= p[2] /\ p[2] <= f[p[1]]}

(* Units of an element.                                                    *)
LEMMA ColumnOf ==
    ASSUME NEW x, NEW v \in Nat
    PROVE  IsFiniteSet({x} \X (1 .. v)) /\ Cardinality({x} \X (1 .. v)) = v
<1>1. IsFiniteSet(1 .. v) /\ Cardinality(1 .. v) = v BY FS_Interval
<1>2. IsFiniteSet({x}) /\ Cardinality({x}) = 1 BY FS_Singleton
<1>3. IsFiniteSet({x} \X (1 .. v)) /\ Cardinality({x} \X (1 .. v)) = Cardinality({x}) * Cardinality(1 .. v)
  BY <1>1, <1>2, FS_Product
<1> QED BY <1>1, <1>2, <1>3

(* One more element adds its units.                                        *)
LEMMA UnitsAdd ==
    ASSUME NEW f, NEW s, NEW x \in s, f[x] \in Nat, IsFiniteSet(Units(f, s \ {x}))
    PROVE  /\ IsFiniteSet(Units(f, s))
           /\ Cardinality(Units(f, s)) = Cardinality(Units(f, s \ {x})) + f[x]
<1> DEFINE U == Units(f, s \ {x})
           C == {x} \X (1 .. f[x])
<1>1. Units(f, s) = U \cup C BY DEF Units
<1>2. U \cap C = {} BY DEF Units
<1>3. IsFiniteSet(C) /\ Cardinality(C) = f[x] BY ColumnOf
<1> HIDE DEF U, C
<1>4. IsFiniteSet(U) BY DEF U
<1>5. IsFiniteSet(U \cup C) /\ Cardinality(U \cup C) = Cardinality(U) + Cardinality(C) - Cardinality(U \cap C)
  BY <1>3, <1>4, FS_Union
<1>6. Cardinality(U \cap C) = 0 BY <1>2, FS_EmptySet
<1>7. Cardinality(U) \in Nat BY <1>4, FS_CardinalityType
<1>8. Cardinality(U \cup C) = Cardinality(U) + f[x] BY <1>3, <1>5, <1>6, <1>7
<1> QED BY <1>1, <1>5, <1>8 DEF U

(* A property of the empty set that a set has when it has it without one   *)
(* of its elements is a property of every finite set: G holds the sets     *)
(* that have it.                                                           *)
LEMMA FiniteGrows ==
    ASSUME NEW D, IsFiniteSet(D), NEW G, {} \in G,
           \A s \in SUBSET D : s # {} /\ s \ {AnyOf(s)} \in G => s \in G
    PROVE  SUBSET D \subseteq G
<1> SUFFICES ASSUME NEW s0 \in SUBSET D, s0 \notin G PROVE FALSE OBVIOUS
<1> DEFINE B == {s \in SUBSET D : s \notin G}
           T == {Cardinality(s) : s \in B}
<1>1. \A s \in SUBSET D : IsFiniteSet(s) /\ Cardinality(s) \in Nat BY FS_Subset, FS_CardinalityType
<1>2. T \in SUBSET Nat /\ T # {} BY <1>1
<1>3. PICK t \in T : \A y \in T : t <= y
  <2> HIDE DEF T
  <2> QED BY <1>2, LeastOf
<1>4. PICK s \in B : t = Cardinality(s) OBVIOUS
<1>5. s # {} BY <1>4
<1> DEFINE x == AnyOf(s)
<1>6. x \in s BY <1>5 DEF AnyOf
<1> HIDE DEF x
<1>7. s \ {x} \in SUBSET D /\ Cardinality(s \ {x}) = Cardinality(s) - 1
  <2>1. IsFiniteSet(s) BY <1>1, <1>4
  <2> QED BY <1>4, <1>6, <2>1, FS_RemoveElement
<1>8. s \ {x} \notin G BY <1>4, <1>5 DEF x
<1>9. Cardinality(s \ {x}) \in T BY <1>7, <1>8
<1>10. Cardinality(s) \in Nat BY <1>1, <1>4
<1>11. t <= Cardinality(s \ {x}) BY <1>3, <1>9
<1> HIDE DEF T
<1> QED BY <1>4, <1>7, <1>10, <1>11

(* Finitely many elements have finitely many units.                        *)
LEMMA UnitsFinite ==
    ASSUME NEW f, IsFiniteSet(DOMAIN f), \A x \in DOMAIN f : f[x] \in Nat,
           NEW s \in SUBSET DOMAIN f
    PROVE  IsFiniteSet(Units(f, s)) /\ Cardinality(Units(f, s)) \in Nat
<1> DEFINE G == {u \in SUBSET DOMAIN f : IsFiniteSet(Units(f, u))}
<1>1. {} \in G
  <2>1. Units(f, {}) = {} BY DEF Units
  <2> QED BY <2>1, FS_EmptySet
<1>2. ASSUME NEW u \in SUBSET DOMAIN f, u # {}, u \ {AnyOf(u)} \in G PROVE u \in G
  <2>1. AnyOf(u) \in u BY <1>2 DEF AnyOf
  <2>2. IsFiniteSet(Units(f, u \ {AnyOf(u)})) BY <1>2
  <2>3. IsFiniteSet(Units(f, u)) BY <2>1, <2>2, UnitsAdd
  <2> QED BY <2>3
<1> HIDE DEF G
<1>3. SUBSET DOMAIN f \subseteq G BY <1>1, <1>2, FiniteGrows
<1>4. IsFiniteSet(Units(f, s)) BY <1>3 DEF G
<1> QED BY <1>4, FS_CardinalityType

(* The sum over a function's domain is the number of its units.            *)
LEMMA SumIsUnits ==
    ASSUME NEW f, IsFiniteSet(DOMAIN f), \A x \in DOMAIN f : f[x] \in Nat
    PROVE  SumFunction(f) = Cardinality(Units(f, DOMAIN f))
<1> DEFINE D == DOMAIN f
           c == [s \in SUBSET D |-> Cardinality(Units(f, s))]
           h == CHOOSE g : IsSum(f, g)
<1>1. SumFunction(f) = h[D]
  BY DEF SumFunction, SumFunctionOnSet, FoldFunctionOnSet, MapThenFoldSet, IsSum, AnyOf
<1>2. Cardinality(Units(f, {})) = 0
  <2>1. Units(f, {}) = {} BY DEF Units
  <2> QED BY <2>1, FS_EmptySet
<1>3. ASSUME NEW s \in SUBSET D, s # {}
      PROVE  /\ AnyOf(s) \in D /\ s \ {AnyOf(s)} \in SUBSET D
             /\ Cardinality(Units(f, s)) = f[AnyOf(s)] + Cardinality(Units(f, s \ {AnyOf(s)}))
  <2>1. AnyOf(s) \in s BY <1>3 DEF AnyOf
  <2>2. /\ IsFiniteSet(Units(f, s \ {AnyOf(s)})) /\ Cardinality(Units(f, s \ {AnyOf(s)})) \in Nat
    BY UnitsFinite
  <2>3. Cardinality(Units(f, s)) = Cardinality(Units(f, s \ {AnyOf(s)})) + f[AnyOf(s)]
    BY <2>1, <2>2, UnitsAdd
  <2> QED BY <2>1, <2>2, <2>3
<1>4. IsSum(f, c)
  <2>1. \A s \in SUBSET D : c[s] = IF s = {} THEN 0 ELSE f[AnyOf(s)] + c[s \ {AnyOf(s)}]
    BY <1>2, <1>3
  <2>2. c = [s \in SUBSET D |-> IF s = {} THEN 0 ELSE f[AnyOf(s)] + c[s \ {AnyOf(s)}]]
    <3>1. c = [s \in SUBSET D |-> c[s]] OBVIOUS
    <3> HIDE DEF c
    <3> QED BY <2>1, <3>1
  <2> HIDE DEF c
  <2> QED BY <2>2 DEF IsSum
<1>5. IsSum(f, h) BY <1>4
<1> DEFINE G == {s \in SUBSET D : h[s] = Cardinality(Units(f, s))}
<1> HIDE DEF h, c
<1>6. \A s \in SUBSET D : h[s] = IF s = {} THEN 0 ELSE f[AnyOf(s)] + h[s \ {AnyOf(s)}]
  BY <1>5 DEF IsSum
<1>7. {} \in G BY <1>2, <1>6
<1>8. \A s \in SUBSET D : s # {} /\ s \ {AnyOf(s)} \in G => s \in G BY <1>3, <1>6
<1> HIDE DEF G
<1>9. SUBSET D \subseteq G BY <1>7, <1>8, FiniteGrows
<1>10. D \in G BY <1>9
<1> QED BY <1>1, <1>10 DEF G

(* A function that differs from f at x only, where f may not be defined.   *)
LEMMA SumChange ==
    ASSUME NEW f, IsFiniteSet(DOMAIN f), \A y \in DOMAIN f : f[y] \in Nat,
           NEW g, NEW x, DOMAIN g = {x} \cup DOMAIN f, g[x] \in Nat,
           \A y \in DOMAIN f : y # x => g[y] = f[y]
    PROVE  /\ SumFunction(f) \in Nat
           /\ SumFunction(g) = SumFunction(f) + g[x] - (IF x \in DOMAIN f THEN f[x] ELSE 0)
<1> DEFINE D == DOMAIN f
           E == DOMAIN g
           R == D \ {x}
<1>1. IsFiniteSet(E) /\ \A y \in E : g[y] \in Nat
  <2>1. E = D \cup {x} OBVIOUS
  <2> QED BY <2>1, FS_AddElement
<1>2. SumFunction(f) = Cardinality(Units(f, D)) /\ SumFunction(g) = Cardinality(Units(g, E))
  BY <1>1, SumIsUnits
<1>3. Units(g, R) = Units(f, R) BY DEF Units
<1>4. R \in SUBSET D /\ R = E \ {x} /\ x \in E OBVIOUS
<1>5. IsFiniteSet(Units(f, R)) /\ Cardinality(Units(f, R)) \in Nat BY <1>4, UnitsFinite
<1>6. Cardinality(Units(g, E)) = Cardinality(Units(f, R)) + g[x]
  <2>1. IsFiniteSet(Units(g, E \ {x})) BY <1>3, <1>4, <1>5
  <2>2. Cardinality(Units(g, E)) = Cardinality(Units(g, E \ {x})) + g[x] BY <1>4, <2>1, UnitsAdd
  <2> QED BY <1>3, <1>4, <2>2
<1>7. CASE x \in D
  <2>1. Cardinality(Units(f, D)) = Cardinality(Units(f, R)) + f[x] BY <1>5, <1>7, UnitsAdd
  <2>2. f[x] \in Nat BY <1>7
  <2> QED BY <1>2, <1>5, <1>6, <1>7, <2>1, <2>2
<1>8. CASE x \notin D
  <2>1. R = D BY <1>8
  <2> QED BY <1>2, <1>5, <1>6, <1>8, <2>1
<1> QED BY <1>7, <1>8

(* It is a number.                                                         *)
LEMMA SumIsNat ==
    ASSUME NEW f, IsFiniteSet(DOMAIN f), \A x \in DOMAIN f : f[x] \in Nat
    PROVE  SumFunction(f) \in Nat
BY SumIsUnits, UnitsFinite

(* Nothing to add.                                                         *)
LEMMA SumOfNothing == ASSUME NEW f, DOMAIN f = {} PROVE SumFunction(f) = 0
<1>1. SumFunction(f) = Cardinality(Units(f, {})) BY FS_EmptySet, SumIsUnits
<1>2. Units(f, {}) = {} BY DEF Units
<1> QED BY <1>1, <1>2, FS_EmptySet

-----------------------------------------------------------------------------
(* The packets of the flow table                                           *)

FlowFields == {"first_seen", "last_seen", "stats", "tcp", "is_reverse", "app_state"}

(* A flow by what it counts.                                               *)
IsFlow(f) ==
    /\ f = [x \in FlowFields |-> f[x]]
    /\ f.stats \in [{"fwd", "rev"} -> [packets : Nat, bytes : Nat]]

PacketsOf(f) == f.stats["fwd"]["packets"] + f.stats["rev"]["packets"]

(* The packets of all flows, retired and active.                           *)
Retired(q) == [i \in DOMAIN q |-> PacketsOf(q[i].flow)]
Active(m)  == [k \in DOMAIN m |-> PacketsOf(m[k])]
PacketsIn(tb) == SumFunction(Retired(tb.completed)) + SumFunction(Active(tb.flows))

IsTable(tb) ==
    /\ IsFiniteSet(DOMAIN tb.flows)
    /\ \E S : tb.completed \in Seq(S)
    /\ \A i \in DOMAIN tb.completed : IsFlow(tb.completed[i].flow)
    /\ \A k \in DOMAIN tb.flows : IsFlow(tb.flows[k])

(* A flow counts its packets by a number.                                  *)
LEMMA PacketsOfType == ASSUME NEW f, IsFlow(f) PROVE PacketsOf(f) \in Nat
<1>1. \A d \in {"fwd", "rev"} : f.stats[d].packets \in Nat
  BY DEF IsFlow
<1> QED BY <1>1 DEF PacketsOf

(* A new flow has no packets.                                              *)
LEMMA NewFlowIs ==
    ASSUME NEW key, NEW ts, NEW f, f = FT!NewFlow(key, ts)
    PROVE  IsFlow(f) /\ PacketsOf(f) = 0
<1> DEFINE tcp == [d \in FT!Dirs |-> FT!Fresh(FT!PortHasAppDecoder(key))]
           stats == [d \in {"fwd", "rev"} |-> [packets |-> 0, bytes |-> 0]]
<1>1. f = [first_seen |-> ts, last_seen |-> ts, stats |-> stats, tcp |-> tcp,
           is_reverse |-> FALSE, app_state |-> FALSE]
  BY DEF FT!NewFlow, FT!Dirs
<1>2. /\ stats \in [{"fwd", "rev"} -> [packets : Nat, bytes : Nat]]
      /\ stats["fwd"]["packets"] = 0 /\ stats["rev"]["packets"] = 0
  OBVIOUS
<1> HIDE DEF tcp, stats
<1>3. IsFlow(f)
  BY <1>1, <1>2 DEF IsFlow, FlowFields
<1> QED BY <1>1, <1>2, <1>3 DEF PacketsOf

(* A packet counted for a flow, in one of its directions.                  *)
Recount(f, D, rev, ts, n) ==
    [f EXCEPT !.last_seen = ts, !.is_reverse = rev,
              !.stats[D].packets = @ + 1, !.stats[D].bytes = @ + n]

(* Counting a packet adds one.                                             *)
LEMMA RecountIs ==
    ASSUME NEW f, IsFlow(f), NEW D \in {"fwd", "rev"}, NEW rev, NEW ts, NEW n \in Nat, NEW g,
           g = Recount(f, D, rev, ts, n)
    PROVE  IsFlow(g) /\ PacketsOf(g) = PacketsOf(f) + 1
<1> DEFINE s1 == [f.stats EXCEPT ![D].packets = @ + 1]
           s2 == [s1 EXCEPT ![D].bytes = @ + n]
<1>1. /\ f = [x \in FlowFields |-> f[x]]
      /\ f.stats \in [{"fwd", "rev"} -> [packets : Nat, bytes : Nat]]
  BY DEF IsFlow
<1>2. /\ s1 \in [{"fwd", "rev"} -> [packets : Nat, bytes : Nat]]
      /\ \A d \in {"fwd", "rev"} : s1[d].packets = f.stats[d].packets + (IF d = D THEN 1 ELSE 0)
  BY <1>1
<1>3. g.stats = s2 /\ g = [x \in FlowFields |-> g[x]]
  BY <1>1 DEF FlowFields, Recount
<1>4. /\ s2 \in [{"fwd", "rev"} -> [packets : Nat, bytes : Nat]]
      /\ \A d \in {"fwd", "rev"} : s2[d].packets = s1[d].packets
  <2> HIDE DEF s1
  <2> QED BY <1>2
<1> HIDE DEF s1, s2
<1>5. IsFlow(g)
  BY <1>3, <1>4 DEF IsFlow
<1>6. \A d \in {"fwd", "rev"} : f.stats[d].packets \in Nat
  BY <1>1
<1>7. PacketsOf(g) = PacketsOf(f) + 1
  <2>1. /\ g.stats["fwd"].packets = f.stats["fwd"].packets + (IF "fwd" = D THEN 1 ELSE 0)
        /\ g.stats["rev"].packets = f.stats["rev"].packets + (IF "rev" = D THEN 1 ELSE 0)
    BY <1>2, <1>3, <1>4
  <2>2. f.stats["fwd"].packets \in Nat /\ f.stats["rev"].packets \in Nat
    BY <1>6
  <2>3. PacketsOf(f) = f.stats["fwd"].packets + f.stats["rev"].packets
        /\ PacketsOf(g) = g.stats["fwd"].packets + g.stats["rev"].packets
    BY DEF PacketsOf
  <2>4. D = "fwd" \/ D = "rev"
    OBVIOUS
  <2> QED BY <2>1, <2>2, <2>3, <2>4
<1> QED BY <1>5, <1>7

(* A flow at the end of the retired ones adds its packets.                 *)
LEMMA RetiredGrows ==
    ASSUME NEW q, NEW S, q \in Seq(S), NEW e, NEW p, p = Append(q, e),
           \A i \in DOMAIN q : PacketsOf(q[i].flow) \in Nat, PacketsOf(e.flow) \in Nat
    PROVE  SumFunction(Retired(p)) = SumFunction(Retired(q)) + PacketsOf(e.flow)
<1> DEFINE x == Len(q) + 1
           f == Retired(q)
           g == Retired(p)
<1>1. Len(q) \in Nat /\ DOMAIN q = 1 .. Len(q)
  OBVIOUS
<1>2. DOMAIN p = {x} \cup DOMAIN q /\ p[x] = e /\ x \notin DOMAIN q /\ \A i \in DOMAIN q : p[i] = q[i]
  <2>1. q \in Seq(S \cup {e}) /\ e \in S \cup {e}
    OBVIOUS
  <2>2. Len(p) = Len(q) + 1 /\ p \in Seq(S \cup {e}) /\ p[Len(q) + 1] = e
        /\ \A i \in 1 .. Len(q) : p[i] = q[i]
    BY <2>1
  <2>3. 1 .. Len(q) + 1 = {Len(q) + 1} \cup 1 .. Len(q) /\ Len(q) + 1 \notin 1 .. Len(q)
    BY <1>1
  <2> QED BY <1>1, <2>2, <2>3
<1> HIDE DEF x
<1>3. DOMAIN f = DOMAIN q /\ \A i \in DOMAIN q : f[i] = PacketsOf(q[i].flow)
  BY DEF Retired
<1>4. DOMAIN g = DOMAIN p /\ \A i \in DOMAIN p : g[i] = PacketsOf(p[i].flow)
  BY DEF Retired
<1> HIDE DEF f, g
<1>5. IsFiniteSet(DOMAIN f)
  BY <1>1, <1>3, FS_Interval
<1>6. /\ \A i \in DOMAIN f : f[i] \in Nat /\ (i # x => g[i] = f[i])
      /\ g[x] = PacketsOf(e.flow) /\ DOMAIN g = {x} \cup DOMAIN f /\ x \notin DOMAIN f
  BY <1>2, <1>3, <1>4
<1>7. /\ SumFunction(f) \in Nat
      /\ SumFunction(g) = SumFunction(f) + g[x] - (IF x \in DOMAIN f THEN f[x] ELSE 0)
  BY <1>5, <1>6, SumChange
<1> QED BY <1>6, <1>7 DEF f, g

(* A flow entered under its key adds its packets, less those of the flow   *)
(* it replaces.                                                            *)
LEMMA ActiveGrows ==
    ASSUME NEW m, NEW key, NEW p, IsFiniteSet(DOMAIN m), DOMAIN p = {key} \cup DOMAIN m,
           \A k \in DOMAIN m : k # key => p[k] = m[k],
           \A k \in DOMAIN m : PacketsOf(m[k]) \in Nat, PacketsOf(p[key]) \in Nat
    PROVE  /\ SumFunction(Active(m)) \in Nat
           /\ SumFunction(Active(p)) = SumFunction(Active(m)) + PacketsOf(p[key])
                                         - (IF key \in DOMAIN m THEN PacketsOf(m[key]) ELSE 0)
<1> DEFINE f == Active(m)
           g == Active(p)
<1>1. DOMAIN f = DOMAIN m /\ \A k \in DOMAIN m : f[k] = PacketsOf(m[k])
  BY DEF Active
<1>2. DOMAIN g = DOMAIN p /\ \A k \in DOMAIN p : g[k] = PacketsOf(p[k])
  BY DEF Active
<1> HIDE DEF f, g
<1>3. DOMAIN g = {key} \cup DOMAIN f /\ g[key] = PacketsOf(p[key])
  BY <1>1, <1>2
<1>4. \A k \in DOMAIN f : f[k] \in Nat /\ (k # key => g[k] = f[k])
  BY <1>1, <1>2
<1>5. IsFiniteSet(DOMAIN f)
  BY <1>1
<1>6. /\ SumFunction(f) \in Nat
      /\ SumFunction(g) = SumFunction(f) + g[key] - (IF key \in DOMAIN f THEN f[key] ELSE 0)
  BY <1>3, <1>4, <1>5, SumChange
<1> QED BY <1>1, <1>3, <1>6 DEF f, g

(* addPacket counts a packet for one flow, also when it retires another.   *)
LEMMA AddPacketCounts ==
    ASSUME NEW tb, IsTable(tb), NEW key, NEW rev, NEW ts, NEW n \in Nat, NEW u,
           u = FT!AddPacket(tb, key, rev, ts, n)
    PROVE  IsTable(u) /\ PacketsIn(tb) \in Nat /\ PacketsIn(u) = PacketsIn(tb) + 1
<1> DEFINE m == tb.flows
           q == tb.completed
           over == FT!Expires(tb, key, ts)
           is_new == FT!IsNew(tb, key, ts)
           base == IF is_new THEN FT!NewFlow(key, ts) ELSE m[key]
           new == FT!Counted(tb, key, rev, ts, n)
           e == [key |-> key, flow |-> m[key]]
<1>1. /\ u.completed = IF over THEN Append(q, e) ELSE q
      /\ u.flows = [k \in {key} \cup DOMAIN m |-> IF k = key THEN new ELSE m[k]]
  BY DEF FT!AddPacket, FT!Put
<1>2. over => key \in DOMAIN m
  BY DEF FT!Expires
<1>3. is_new <=> (key \notin DOMAIN m \/ over)
  BY DEF FT!IsNew
<1>4. new = Recount(base, FT!DirOf(rev), rev, ts, n)
  BY DEF FT!Counted, Recount
<1>5. FT!DirOf(rev) \in {"fwd", "rev"}
  BY DEF FT!DirOf
<1>6. \A k \in DOMAIN m : IsFlow(m[k]) /\ PacketsOf(m[k]) \in Nat
  BY PacketsOfType DEF IsTable
<1>7. \A i \in DOMAIN q : IsFlow(q[i].flow) /\ PacketsOf(q[i].flow) \in Nat
  BY PacketsOfType DEF IsTable
<1>8. PICK S : q \in Seq(S)
  BY DEF IsTable
<1>9. IsFiniteSet(DOMAIN m)
  BY DEF IsTable
<1>10. e.flow = m[key]
  OBVIOUS
<1>11. IsFlow(base) /\ PacketsOf(base) = IF is_new THEN 0 ELSE PacketsOf(m[key])
  <2> HIDE DEF m, is_new, over
  <2> QED BY <1>3, <1>6, NewFlowIs
<1> HIDE DEF base, m, q, over, is_new, new, e
<1>12. IsFlow(new) /\ PacketsOf(new) = PacketsOf(base) + 1
  BY <1>4, <1>5, <1>11, RecountIs
<1>13. PacketsOf(new) \in Nat
  BY <1>12, PacketsOfType
<1>14. /\ DOMAIN u.flows = {key} \cup DOMAIN m /\ u.flows[key] = new
       /\ \A k \in DOMAIN m : k # key => u.flows[k] = m[k]
  BY <1>1
<1>15. /\ SumFunction(Active(m)) \in Nat
       /\ SumFunction(Active(u.flows)) = SumFunction(Active(m)) + PacketsOf(new)
                                         - (IF key \in DOMAIN m THEN PacketsOf(m[key]) ELSE 0)
  <2>1. PICK p : p = u.flows
    OBVIOUS
  <2>2. /\ DOMAIN p = {key} \cup DOMAIN m /\ p[key] = new
        /\ \A k \in DOMAIN m : k # key => p[k] = m[k]
    BY <1>14, <2>1
  <2>3. PacketsOf(p[key]) \in Nat
    BY <1>13, <2>2
  <2>4. \A k \in DOMAIN m : PacketsOf(m[k]) \in Nat
    BY <1>6
  <2>5. /\ SumFunction(Active(m)) \in Nat
        /\ SumFunction(Active(p)) = SumFunction(Active(m)) + PacketsOf(p[key])
                                         - (IF key \in DOMAIN m THEN PacketsOf(m[key]) ELSE 0)
    BY <1>9, <2>2, <2>3, <2>4, ActiveGrows
  <2> QED BY <2>1, <2>2, <2>5
<1>16. SumFunction(Retired(q)) \in Nat
  <2> DEFINE f == Retired(q)
  <2>1. DOMAIN f = DOMAIN q /\ \A i \in DOMAIN q : f[i] \in Nat
    BY <1>7 DEF Retired
  <2>2. DOMAIN q = 1 .. Len(q) /\ Len(q) \in Nat
    BY <1>8
  <2> HIDE DEF f
  <2>3. IsFiniteSet(DOMAIN f)
    BY <2>1, <2>2, FS_Interval
  <2>4. SumFunction(f) \in Nat
    BY <2>1, <2>3, SumIsNat
  <2> QED BY <2>4 DEF f
<1>17. key \in DOMAIN m => PacketsOf(m[key]) \in Nat
  BY <1>6
<1>18. PacketsIn(tb) = SumFunction(Retired(q)) + SumFunction(Active(m))
       /\ PacketsIn(u) = SumFunction(Retired(u.completed)) + SumFunction(Active(u.flows))
  BY DEF PacketsIn, m, q
<1>19. PacketsIn(u) = PacketsIn(tb) + 1
  <2>1. CASE over
    <3>1. SumFunction(Retired(u.completed)) = SumFunction(Retired(q)) + PacketsOf(m[key])
      <4>1. u.completed = Append(q, e)
        BY <1>1, <2>1
      <4>2. PacketsOf(e.flow) = PacketsOf(m[key]) /\ PacketsOf(e.flow) \in Nat
        BY <1>2, <1>10, <1>17, <2>1
      <4>3. SumFunction(Retired(Append(q, e))) = SumFunction(Retired(q)) + PacketsOf(e.flow)
        BY <1>7, <1>8, <4>2, RetiredGrows
      <4> QED BY <4>1, <4>2, <4>3
    <3>2. key \in DOMAIN m /\ PacketsOf(new) = 1
      BY <1>2, <1>3, <1>11, <1>12, <2>1
    <3> QED BY <1>15, <1>16, <1>17, <1>18, <3>1, <3>2
  <2>2. CASE ~over
    <3>1. u.completed = q
      BY <1>1, <2>2
    <3>2. PacketsOf(new) = (IF key \in DOMAIN m THEN PacketsOf(m[key]) ELSE 0) + 1
      BY <1>3, <1>11, <1>12, <2>2
    <3> QED BY <1>15, <1>16, <1>17, <1>18, <3>1, <3>2
  <2> QED BY <2>1, <2>2
<1>20. PacketsIn(tb) \in Nat
  BY <1>15, <1>16, <1>18
<1>21. IsTable(u)
  <2>1. IsFiniteSet(DOMAIN u.flows)
    <3>1. DOMAIN u.flows = DOMAIN m \cup {key}
      BY <1>14
    <3> QED BY <1>9, <3>1, FS_AddElement
  <2>2. \A k \in DOMAIN u.flows : IsFlow(u.flows[k])
    BY <1>6, <1>12, <1>14
  <2>3. CASE over
    <3>1. u.completed = Append(q, e) /\ IsFlow(e.flow)
      BY <1>1, <1>2, <1>6, <1>10, <2>3
    <3>2. u.completed \in Seq(S \cup {e}) /\ \A i \in DOMAIN u.completed : IsFlow(u.completed[i].flow)
      BY <1>7, <1>8, <3>1
    <3> QED BY <2>1, <2>2, <3>2 DEF IsTable
  <2>4. CASE ~over
    <3>1. u.completed = q
      BY <1>1, <2>4
    <3> QED BY <1>7, <1>8, <2>1, <2>2, <3>1 DEF IsTable
  <2> QED BY <2>3, <2>4
<1> QED BY <1>19, <1>20, <1>21

(* An empty table.                                                         *)
LEMMA NewTableIs ==
    ASSUME NEW tb, tb = FT!NewTable
    PROVE  IsTable(tb) /\ PacketsIn(tb) = 0
<1>1. tb.flows = << >> /\ tb.completed = <<>>
  BY DEF FT!NewTable
<1>2. DOMAIN tb.flows = {} /\ DOMAIN tb.completed = {} /\ tb.completed \in Seq({})
  BY <1>1
<1>3. IsTable(tb)
  BY <1>2, FS_EmptySet DEF IsTable
<1>4. DOMAIN Active(tb.flows) = {} /\ DOMAIN Retired(tb.completed) = {}
  BY <1>2 DEF Active, Retired
<1>5. SumFunction(Active(tb.flows)) = 0 /\ SumFunction(Retired(tb.completed)) = 0
  BY <1>4, SumOfNothing
<1> QED BY <1>3, <1>5 DEF PacketsIn

-----------------------------------------------------------------------------
(* Every record is timed once                                              *)

CallsOf(p)   == bench.phases[p].calls
ElapsedOf(p) == bench.phases[p].elapsed_ns

(* How often each phase ran on the packets so far.                         *)
PerFlow ==
    /\ CallsOf("DecodePacket") = CallsOf("Decode")
    /\ CallsOf("FlowLookup") = r.decoded
    /\ CallsOf("TcpReassembly") <= CallsOf("AppDecode")
    /\ CallsOf("AppDecode") = PacketsIn(table)

(* While the capture is read, and once it has been.                        *)
Timing ==
    /\ SoundFile(file) => CallsOf("Decode") + Len(Ahead(Fates)) = Len(Records(Fates))
    /\ ~SoundFile(file) => CallsOf("Decode") = 0
    /\ CallsOf("PacketHeader") = CallsOf("Decode")
    /\ PerFlow

Timed ==
    /\ CallsOf("Decode") = Len(Records(Fates))
    /\ CallsOf("PacketHeader") - CallsOf("Decode") \in {0, 1}
    /\ PerFlow

BInv ==
    /\ file \in Seq(Byte)
    /\ pc \in {"args", "read", "emit", "exit"}
    /\ Clocked(bench, pc = "read")
    /\ pc = "args" => /\ bench = NewBenchmark(FALSE)
                      /\ table = [flows |-> << >>, completed |-> <<>>, total_bytes |-> 0]
    /\ pc = "read" => /\ Fits(file, r) /\ r.decoded \in Nat /\ IsTable(table)
                      /\ bench.detailed => Timing
    /\ pc = "emit" => /\ ElapsedOf("PacketHeader") + ElapsedOf("Decode") <= ElapsedOf("Total")
                      /\ bench.detailed => Timed

(* BInv says what PhasesBalanced asks.                                     *)
LEMMA BalancedFromInvariant == BInv => PhasesBalanced
<1> SUFFICES ASSUME BInv PROVE PhasesBalanced
  OBVIOUS
<1>1. FT!SumOverFlows(table, "packets") = PacketsIn(table)
  BY DEF FT!SumOverFlows, FT!TotalOf, FT!SumFunction, FT!SumFunctionOnSet, FT!FoldFunctionOnSet,
         FT!MapThenFoldSet, PacketsIn, Retired, Active, PacketsOf, SumFunction, SumFunctionOnSet,
         FoldFunctionOnSet, MapThenFoldSet
<1>2. Clocked(bench, pc = "read")
  BY DEF BInv
<1>3. pc = "emit" => ElapsedOf("PacketHeader") + ElapsedOf("Decode") <= ElapsedOf("Total")
  BY DEF BInv
<1>4. pc = "emit" /\ bench.detailed => Timed
  BY DEF BInv
<1> QED BY <1>1, <1>2, <1>3, <1>4 DEF PhasesBalanced, Clocked, Timed, PerFlow, CallsOf, ElapsedOf

(* A new Benchmark has timed nothing.                                      *)
LEMMA NewBenchmarkIs ==
    ASSUME NEW d \in BOOLEAN
    PROVE  LET b == NewBenchmark(d)
           IN  /\ Clocked(b, FALSE) /\ b.detailed = d
               /\ \A p \in PerPacket : b.phases[p].calls = 0 /\ b.phases[p].elapsed_ns = 0
<1> DEFINE b == NewBenchmark(d)
           z == [calls |-> 0, elapsed_ns |-> 0, started |-> 0, running |-> FALSE]
<1>1. b = [detailed |-> d, now |-> 0, phases |-> [p \in Phases |-> z]]
  BY DEF NewBenchmark
<1>2. z \in PhaseStates /\ z.calls = 0 /\ z.elapsed_ns = 0 /\ ~z.running
  BY DEF PhaseStates
<1> HIDE DEF z, b
<1>3. b \in Benchmarks /\ b.detailed = d /\ \A p \in Phases : b.phases[p] = z
  BY <1>1, <1>2 DEF Benchmarks
<1>4. \A p \in Phases : b.phases[p].calls = 0 /\ b.phases[p].elapsed_ns = 0 /\ ~b.phases[p].running
  BY <1>2, <1>3
<1>5. \A p \in PerPacket : b.phases[p].calls = 0 /\ b.phases[p].elapsed_ns = 0
  BY <1>4, PhaseNames
<1>6. b.phases["DecodePacket"].elapsed_ns + b.phases["FlowLookup"].elapsed_ns
          + b.phases["TcpReassembly"].elapsed_ns + b.phases["AppDecode"].elapsed_ns
          <= b.phases["Decode"].elapsed_ns
  BY <1>5, PhaseNames
<1>7. Clocked(b, FALSE)
  BY <1>3, <1>4, <1>5, <1>6, PhaseNames DEF Clocked
<1> QED BY <1>3, <1>5, <1>7 DEF b

(* The constructor times the file header, and the program starts Total.    *)
LEMMA ConstructedIs ==
    LET c == Start(Constructed, "Total")
    IN  /\ Clocked(Constructed, FALSE) /\ Clocked(c, TRUE)
        /\ \A p \in PerPacket : c.phases[p].calls = 0
<1> DEFINE d == "bench" \in opts.show
           b == NewBenchmark(d)
           a == Constructed
           c == Start(a, "Total")
<1>1. /\ Clocked(b, FALSE)
      /\ \A p \in PerPacket : b.phases[p].calls = 0 /\ b.phases[p].elapsed_ns = 0
  <2>1. d \in BOOLEAN
    OBVIOUS
  <2> HIDE DEF d
  <2> QED BY <2>1, NewBenchmarkIs
<1>2. a = Around("FileHeader")[b]
  BY DEF Constructed
<1> HIDE DEF a, b
<1>3. b \in Benchmarks
  BY <1>1 DEF Clocked
<1>4. Once(b, a, "FileHeader")
  <2>1. ~Ignored(b, "FileHeader")
    BY PhaseNames DEF Ignored
  <2> QED BY <1>2, <1>3, <2>1, AroundIs, PhaseNames
<1>5. a \in Benchmarks /\ ~a.phases["FileHeader"].running
      /\ \A q \in Phases \ {"FileHeader"} : a.phases[q] = b.phases[q]
  BY <1>4 DEF Once
<1>6. /\ \A p \in PerPacket : a.phases[p].calls = 0 /\ a.phases[p].elapsed_ns = 0
      /\ \A p \in Phases : ~a.phases[p].running
  BY <1>1, <1>5, PhaseNames DEF Clocked
<1>7. a.phases["DecodePacket"].elapsed_ns + a.phases["FlowLookup"].elapsed_ns
          + a.phases["TcpReassembly"].elapsed_ns + a.phases["AppDecode"].elapsed_ns
          <= a.phases["Decode"].elapsed_ns
  BY <1>6, PhaseNames
<1>8. Clocked(a, FALSE)
  BY <1>5, <1>6, <1>7, PhaseNames DEF Clocked
<1>9. ~Ignored(a, "Total")
  BY PhaseNames DEF Ignored
<1>10. /\ c \in Benchmarks /\ c.detailed = a.detailed /\ c.now = a.now + 1
       /\ \A q \in Phases \ {"Total"} : c.phases[q] = a.phases[q]
       /\ c.phases["Total"].started = a.now + 1
       /\ c.phases["Total"].running
  BY <1>5, <1>9, StartIs, PhaseNames
<1> HIDE DEF c
<1>11. \A p \in PerPacket : c.phases[p].calls = 0 /\ c.phases[p].elapsed_ns = 0
  BY <1>6, <1>10, PhaseNames
<1>12. c.phases["DecodePacket"].elapsed_ns + c.phases["FlowLookup"].elapsed_ns
          + c.phases["TcpReassembly"].elapsed_ns + c.phases["AppDecode"].elapsed_ns
          <= c.phases["Decode"].elapsed_ns
  BY <1>11, PhaseNames
<1>13. c.phases["Total"].started + c.phases["PacketHeader"].elapsed_ns
                + c.phases["Decode"].elapsed_ns <= c.now
  <2>1. a.now \in Nat
    BY <1>5, PhaseNumbers
  <2>2. c.phases["PacketHeader"].elapsed_ns = 0 /\ c.phases["Decode"].elapsed_ns = 0
    BY <1>11, PhaseNames
  <2> QED BY <1>10, <2>1, <2>2
<1>14. Clocked(c, TRUE)
  BY <1>6, <1>10, <1>11, <1>12, <1>13 DEF Clocked
<1> QED BY <1>8, <1>11, <1>14 DEF a, c

(* The constructor and the phases it starts.                               *)
LEMMA OpenTimes ==
    ASSUME BInv, OpenCapture
    PROVE  BInv'
<1>1. /\ file \in Seq(Byte) /\ r' = NewReader(file) /\ bench' = Start(Constructed, "Total")
      /\ UNCHANGED <<argv, file, table>> /\ pc' = "read"
      /\ table = [flows |-> << >>, completed |-> <<>>, total_bytes |-> 0]
  BY DEF BInv, OpenCapture, Ready, Starting, inputs, state
<1>2. /\ Fits(file, NewReader(file)) /\ NewReader(file).decoded = 0
      /\ SoundFile(file) => NewReader(file).at = FILE_HEADER_LEN
  BY <1>1, NewReaderFits
<1>3. Fits(file, r)' /\ r'.decoded = 0
  BY <1>1, <1>2
<1>4. Clocked(bench', TRUE) /\ \A p \in PerPacket : bench'.phases[p].calls = 0
  BY <1>1, ConstructedIs
<1>5. IsTable(table) /\ PacketsIn(table) = 0
  BY <1>1, NewTableIs DEF FT!NewTable
<1>6. IsTable(table') /\ PacketsIn(table') = 0
  BY <1>1, <1>5
<1>7. SoundFile(file') => Ahead(Fates)' = Records(Fates)' /\ Len(Records(Fates)') \in Nat
  <2>1. SoundFile(file') => Ahead(Fates)' = Records(Fates)'
    BY <1>1, <1>2 DEF Ahead, Records
  <2>2. r'.at \in 0 .. Len(file')
    BY <1>3 DEF Fits
  <2>3. Ahead(Fates)' \in Seq(RecordsOf(file'))
    BY <1>1, <2>2, RecordsFromType DEF Ahead
  <2>4. Len(Ahead(Fates)') \in Nat
    BY <2>3
  <2> QED BY <2>1, <2>4
<1>8. Timing'
  <2>1. \A p \in PerPacket : CallsOf(p)' = 0
    BY <1>4 DEF CallsOf
  <2>2. PerFlow'
    BY <1>3, <1>6, <2>1, PhaseNames DEF PerFlow
  <2> QED BY <1>7, <2>1, <2>2, PhaseNames DEF Timing
<1>9. Clocked(bench, pc = "read")'
  BY <1>1, <1>4
<1> QED BY <1>1, <1>3, <1>6, <1>8, <1>9 DEF BInv

(* A round on a record: it is taken from those ahead, and its phases are   *)
(* timed.                                                                  *)
LEMMA RoundTimes ==
    ASSUME BInv, Whole, NEW refused \in BOOLEAN, bench' = DecodeBench(refused),
           MovesTo(Beyond(file, r.at))
    PROVE  /\ Clocked(bench', TRUE)
           /\ bench'.detailed => /\ bench.detailed
                                 /\ CallsOf("Decode")' + Len(Ahead(Fates)') = Len(Records(Fates)')
                                 /\ CallsOf("PacketHeader")' = CallsOf("Decode")'
                                 /\ CallsOf("DecodePacket")' = CallsOf("Decode")'
                                 /\ CallsOf("FlowLookup")' = r.decoded + (IF refused THEN 0 ELSE 1)
                                 /\ CallsOf("TcpReassembly")' <= CallsOf("AppDecode")'
                                 /\ CallsOf("AppDecode")' = PacketsIn(table)
                                      + (IF ~refused /\ FT!HasKey(Frame) THEN 1 ELSE 0)
<1> DEFINE b == HeaderTimed(bench, file, r)
           has_flow == FT!HasKey(Frame)
           is_tcp == Frame.transport.kind = "tcp"
<1>1. /\ file \in Seq(Byte) /\ pc = "read" /\ Fits(file, r) /\ r.decoded \in Nat
      /\ Clocked(bench, TRUE) /\ (bench.detailed => Timing)
  BY DEF BInv, Whole
<1>2. bench' = DecodeTimed(b, refused, has_flow, is_tcp) /\ has_flow \in BOOLEAN /\ is_tcp \in BOOLEAN
  BY DEF DecodeBench, FT!HasKey
<1> HIDE DEF has_flow, is_tcp
<1>3. SoundFile(file)
  BY <1>1, RoundOnRecord
<1>4. ~Untouched(file, r)
  <2>1. RecordErr(file, r) = "None"
    BY DEF Whole
  <2> QED BY <2>1 DEF RecordErr, PacketHeaderErr, Untouched
<1>5. /\ Clocked(b, TRUE) /\ b.detailed = bench.detailed
      /\ \A p \in Phases \ {"PacketHeader"} : b.phases[p].calls = bench.phases[p].calls
      /\ bench.detailed => b.phases["PacketHeader"].calls = bench.phases["PacketHeader"].calls + 1
  <2>1. (IF Untouched(file, r) THEN 0 ELSE 1) = 1
    BY <1>4
  <2>2. /\ Clocked(b, TRUE) /\ b.detailed = bench.detailed
        /\ \A p \in Phases \ {"PacketHeader"} : b.phases[p].calls = bench.phases[p].calls
        /\ bench.detailed => b.phases["PacketHeader"].calls = bench.phases["PacketHeader"].calls
                                  + (IF Untouched(file, r) THEN 0 ELSE 1)
    BY <1>1, HeaderClocked, Zenon
  <2> HIDE DEF b
  <2> QED BY <2>1, <2>2
<1> HIDE DEF b
<1>6. CASE ~bench.detailed
  <2>1. bench' = b
    BY <1>2, <1>5, <1>6, DecodeUntimed DEF Clocked
  <2> QED BY <1>5, <1>6, <2>1
<1>7. CASE bench.detailed
  <2>1. /\ Clocked(bench', TRUE) /\ bench'.detailed
        /\ DecodeAdds(b, bench', ~refused, ~refused /\ has_flow, ~refused /\ has_flow /\ is_tcp)
    BY <1>2, <1>5, <1>7, DecodeClocked
  <2>2. /\ CallsOf("Decode") + Len(Ahead(Fates)) = Len(Records(Fates))
        /\ CallsOf("PacketHeader") = CallsOf("Decode")
        /\ CallsOf("DecodePacket") = CallsOf("Decode")
        /\ CallsOf("FlowLookup") = r.decoded
        /\ CallsOf("TcpReassembly") <= CallsOf("AppDecode")
        /\ CallsOf("AppDecode") = PacketsIn(table)
    BY <1>1, <1>3, <1>7 DEF Timing, PerFlow
  <2>3. \A p \in PerPacket : CallsOf(p) \in Nat
    BY <1>1, PhaseNumbers, PhaseNames DEF CallsOf, Clocked
  <2>4. /\ CallsOf("Decode")' = CallsOf("Decode") + 1
        /\ CallsOf("DecodePacket")' = CallsOf("DecodePacket") + 1
        /\ CallsOf("PacketHeader")' = CallsOf("PacketHeader") + 1
        /\ CallsOf("FlowLookup")' = CallsOf("FlowLookup") + (IF ~refused THEN 1 ELSE 0)
        /\ CallsOf("AppDecode")' = CallsOf("AppDecode") + (IF ~refused /\ has_flow THEN 1 ELSE 0)
        /\ CallsOf("TcpReassembly")'
              = CallsOf("TcpReassembly") + (IF ~refused /\ has_flow /\ is_tcp THEN 1 ELSE 0)
    BY <1>5, <1>7, <2>1, PhaseNames DEF DecodeAdds, CallsOf
  <2>5. Len(Ahead(Fates)) = 1 + Len(Ahead(Fates)') /\ Records(Fates)' = Records(Fates)
        /\ Len(Ahead(Fates)') \in Nat
    <3> DEFINE rec == RecordAt(file, r.at)
    <3>1. Fate(argv, file, rec) \in Fates
      BY DEF Fate, Fates
    <3>2. Taken(argv, file, Fates, r.at) = <<rec>>
      BY <3>1 DEF Taken
    <3>3. rec \in RecordsOf(file)
      BY <1>1, RoundOnRecord
    <3> HIDE DEF rec
    <3>4. /\ Ahead(Fates) = <<rec>> \o Ahead(Fates)' /\ Ahead(Fates)' \in Seq(RecordsOf(file))
          /\ Records(Fates)' = Records(Fates)
      BY <1>1, <3>2, AheadStep
    <3> QED BY <3>3, <3>4
  <2>6. CallsOf("Decode")' + Len(Ahead(Fates)') = Len(Records(Fates)')
    BY <2>2, <2>3, <2>4, <2>5, PhaseNames
  <2>7. CallsOf("FlowLookup")' = r.decoded + (IF refused THEN 0 ELSE 1)
    BY <2>2, <2>4
  <2>8. CallsOf("AppDecode")' = PacketsIn(table) + (IF ~refused /\ has_flow THEN 1 ELSE 0)
    BY <2>2, <2>4
  <2>9. CallsOf("TcpReassembly")' <= CallsOf("AppDecode")'
    BY <2>2, <2>3, <2>4, PhaseNames
  <2> QED BY <1>7, <2>1, <2>2, <2>4, <2>6, <2>7, <2>8, <2>9 DEF has_flow
<1> QED BY <1>6, <1>7

(* A frame that is refused, by decodePacket or by the filter.              *)
LEMMA RefusedTimes ==
    ASSUME BInv, SkipPacket \/ DropPacket
    PROVE  BInv'
<1>1. /\ file \in Seq(Byte) /\ Whole /\ pc = "read" /\ Fits(file, r) /\ r.decoded \in Nat
      /\ IsTable(table)
  BY DEF BInv, SkipPacket, DropPacket, Whole
<1>2. /\ SoundFile(file) /\ Consumed(file, r) = Beyond(file, r.at)
      /\ Beyond(file, r.at) \in 0 .. Len(file)
  BY <1>1, RoundOnRecord
<1>3. r = [x \in ReaderFields |-> r[x]]
  BY <1>1 DEF Fits
<1>4. /\ UNCHANGED <<argv, file, pc, table>> /\ bench' = DecodeBench(TRUE)
      /\ \/ r' = [r EXCEPT !.at = Beyond(file, r.at), !.skipped = @ + 1, !.last_skip_err = FrameErr]
         \/ r' = [r EXCEPT !.at = Beyond(file, r.at)]
  BY <1>2 DEF SkipPacket, DropPacket, Dropped, inputs, state
<1>5. MovesTo(Beyond(file, r.at)) /\ r'.decoded = r.decoded
  <2>1. CASE r' = [r EXCEPT !.at = Beyond(file, r.at), !.skipped = @ + 1, !.last_skip_err = FrameErr]
    BY <1>3, <1>4, <2>1 DEF MovesTo, ReaderFields
  <2>2. CASE r' = [r EXCEPT !.at = Beyond(file, r.at)]
    BY <1>3, <1>4, <2>2 DEF MovesTo, ReaderFields
  <2> QED BY <1>4, <2>1, <2>2
<1>6. Fits(file, r)'
  BY <1>1, <1>2, <1>5, MovesFits
<1>7. Clocked(bench, pc = "read")' /\ (bench'.detailed => Timing')
  <2>1. PacketsIn(table') = PacketsIn(table) /\ SoundFile(file')
    BY <1>2, <1>4
  <2>2. Clocked(bench', TRUE)
    BY <1>1, <1>4, <1>5, RoundTimes
  <2>3. ASSUME bench'.detailed
        PROVE  Timing'
    <3>1. /\ CallsOf("Decode")' + Len(Ahead(Fates)') = Len(Records(Fates)')
          /\ CallsOf("PacketHeader")' = CallsOf("Decode")'
          /\ CallsOf("DecodePacket")' = CallsOf("Decode")'
          /\ CallsOf("FlowLookup")' = r.decoded + 0
          /\ CallsOf("TcpReassembly")' <= CallsOf("AppDecode")'
          /\ CallsOf("AppDecode")' = PacketsIn(table) + 0
          /\ bench.detailed
      BY <1>1, <1>4, <1>5, <2>3, RoundTimes
    <3>2. PacketsIn(table) \in Nat
      <4>1. CallsOf("AppDecode") = PacketsIn(table)
        BY <1>1, <3>1 DEF BInv, Timing, PerFlow
      <4>2. CallsOf("AppDecode") \in Nat
        BY PhaseNumbers, PhaseNames DEF BInv, Clocked, CallsOf
      <4> QED BY <4>1, <4>2
    <3>3. CallsOf("FlowLookup")' = r'.decoded /\ CallsOf("AppDecode")' = PacketsIn(table')
      BY <1>1, <1>5, <2>1, <3>1, <3>2
    <3> QED BY <2>1, <3>1, <3>3 DEF Timing, PerFlow
  <2> QED BY <1>1, <1>4, <2>2, <2>3
<1> QED BY <1>1, <1>4, <1>5, <1>6, <1>7 DEF BInv

(* A packet that is decoded.                                               *)
LEMMA DecodedTimes ==
    ASSUME BInv, DecodePacket
    PROVE  BInv'
<1>1. /\ file \in Seq(Byte) /\ Whole /\ pc = "read" /\ Fits(file, r) /\ r.decoded \in Nat
      /\ IsTable(table)
  BY DEF BInv, DecodePacket, Whole
<1>2. /\ SoundFile(file) /\ Consumed(file, r) = Beyond(file, r.at) /\ IsRecord(file, r.at)
      /\ Beyond(file, r.at) \in 0 .. Len(file) /\ Capture(file, r) = RecordAt(file, r.at)
  BY <1>1, RoundOnRecord
<1>3. r = [x \in ReaderFields |-> r[x]]
  BY <1>1 DEF Fits
<1>4. /\ UNCHANGED <<argv, file, pc>> /\ bench' = DecodeBench(FALSE)
      /\ r' = [r EXCEPT !.at = Beyond(file, r.at), !.decoded = @ + 1]
      /\ IF FT!HasKey(Frame) THEN Track(Capture(file, r), r.decoded + 1) ELSE UNCHANGED <<table, apps>>
  BY <1>2 DEF DecodePacket, inputs
<1>5. MovesTo(Beyond(file, r.at)) /\ r'.decoded = r.decoded + 1
  BY <1>3, <1>4 DEF MovesTo, ReaderFields
<1>6. Fits(file, r)'
  BY <1>1, <1>2, <1>5, MovesFits
<1>7. Capture(file, r).incl_len \in Nat
  <2>1. Capture(file, r).incl_len = Number(file, r.at, 3)
    BY <1>2 DEF RecordAt
  <2>2. r.at \in Nat /\ r.at + 2 * 3 <= Len(file)
    BY <1>1, <1>2 DEF IsRecord, PACKET_HEADER_LEN, Fits
  <2> QED BY <1>1, <2>1, <2>2, NumberType
<1>8. /\ IsTable(table')
      /\ PacketsIn(table) \in Nat =>
            PacketsIn(table') = PacketsIn(table) + (IF FT!HasKey(Frame) THEN 1 ELSE 0)
  <2>1. CASE FT!HasKey(Frame)
    <3>1. \E key, rev, ts : table' = FT!AddPacket(table, key, rev, ts, Capture(file, r).incl_len)
      BY <1>4, <2>1 DEF Track
    <3>2. PICK key, rev, ts : table' = FT!AddPacket(table, key, rev, ts, Capture(file, r).incl_len)
      BY <3>1
    <3>3. IsTable(table') /\ PacketsIn(table') = PacketsIn(table) + 1
      BY <1>1, <1>7, <3>2, AddPacketCounts
    <3> QED BY <2>1, <3>3
  <2>2. CASE ~FT!HasKey(Frame)
    BY <1>1, <1>4, <2>2
  <2> QED BY <2>1, <2>2
<1>9. Clocked(bench, pc = "read")' /\ (bench'.detailed => Timing')
  <2>1. SoundFile(file')
    BY <1>2, <1>4
  <2>2. Clocked(bench', TRUE)
    BY <1>1, <1>4, <1>5, RoundTimes
  <2>3. ASSUME bench'.detailed
        PROVE  Timing'
    <3>1. /\ CallsOf("Decode")' + Len(Ahead(Fates)') = Len(Records(Fates)')
          /\ CallsOf("PacketHeader")' = CallsOf("Decode")'
          /\ CallsOf("DecodePacket")' = CallsOf("Decode")'
          /\ CallsOf("FlowLookup")' = r.decoded + 1
          /\ CallsOf("TcpReassembly")' <= CallsOf("AppDecode")'
          /\ CallsOf("AppDecode")' = PacketsIn(table) + (IF FT!HasKey(Frame) THEN 1 ELSE 0)
          /\ bench.detailed
      BY <1>1, <1>4, <1>5, <2>3, RoundTimes
    <3>2. PacketsIn(table) \in Nat
      <4>1. CallsOf("AppDecode") = PacketsIn(table)
        BY <1>1, <3>1 DEF BInv, Timing, PerFlow
      <4>2. CallsOf("AppDecode") \in Nat
        BY PhaseNumbers, PhaseNames DEF BInv, Clocked, CallsOf
      <4> QED BY <4>1, <4>2
    <3>3. CallsOf("FlowLookup")' = r'.decoded /\ CallsOf("AppDecode")' = PacketsIn(table')
      BY <1>5, <1>8, <3>1, <3>2
    <3> QED BY <2>1, <3>1, <3>3 DEF Timing, PerFlow
  <2> QED BY <1>1, <1>4, <2>2, <2>3
<1>10. IsTable(table)' /\ r'.decoded \in Nat /\ pc' = "read" /\ file' \in Seq(Byte)
  BY <1>1, <1>4, <1>5, <1>8
<1> QED BY <1>6, <1>9, <1>10 DEF BInv

(* The end of the capture stops Total, which took at least as long as what *)
(* was timed inside it.                                                    *)
LEMMA StopTotal ==
    ASSUME NEW b, Clocked(b, TRUE)
    PROVE  LET c == Stop(b, "Total")
           IN  /\ Clocked(c, FALSE) /\ c.detailed = b.detailed
               /\ \A p \in PerPacket : c.phases[p] = b.phases[p]
               /\ c.phases["PacketHeader"].elapsed_ns + c.phases["Decode"].elapsed_ns
                     <= c.phases["Total"].elapsed_ns
<1> DEFINE c == Stop(b, "Total")
<1>1. b \in Benchmarks /\ b.phases["Total"].running
  BY DEF Clocked
<1>2. /\ b.now \in Nat /\ b.phases["Total"].started \in Nat /\ b.phases["Total"].elapsed_ns \in Nat
      /\ b.phases["PacketHeader"].elapsed_ns \in Nat /\ b.phases["Decode"].elapsed_ns \in Nat
      /\ b.phases["Total"].started + b.phases["PacketHeader"].elapsed_ns
            + b.phases["Decode"].elapsed_ns <= b.now
  BY <1>1, PhaseNumbers, PhaseNames DEF Clocked
<1>3. ~Ignored(b, "Total")
  BY PhaseNames DEF Ignored
<1>4. b.phases["Total"].started <= b.now
  BY <1>2
<1>5. /\ c \in Benchmarks /\ c.detailed = b.detailed /\ c.now = b.now + 1
      /\ \A q \in Phases \ {"Total"} : c.phases[q] = b.phases[q]
      /\ c.phases["Total"].elapsed_ns
            = b.phases["Total"].elapsed_ns + (b.now + 1 - b.phases["Total"].started)
      /\ ~c.phases["Total"].running
  BY <1>1, <1>3, <1>4, StopIs, PhaseNames
<1> HIDE DEF c
<1>6. \A p \in PerPacket : c.phases[p] = b.phases[p]
  BY <1>5, PhaseNames
<1>7. c.phases["PacketHeader"].elapsed_ns + c.phases["Decode"].elapsed_ns
        <= c.phases["Total"].elapsed_ns
  <2>1. c.phases["PacketHeader"] = b.phases["PacketHeader"] /\ c.phases["Decode"] = b.phases["Decode"]
    BY <1>6, PhaseNames
  <2> QED BY <1>2, <1>5, <2>1
<1>8. Clocked(c, FALSE)
  <2>1. c.phases["DecodePacket"].elapsed_ns + c.phases["FlowLookup"].elapsed_ns
          + c.phases["TcpReassembly"].elapsed_ns + c.phases["AppDecode"].elapsed_ns
          <= c.phases["Decode"].elapsed_ns
    BY <1>6, PhaseNames DEF Clocked
  <2>2. \A p \in Phases \ {"Total"} : ~c.phases[p].running
    BY <1>5 DEF Clocked
  <2>3. ~c.detailed => \A p \in PerPacket : c.phases[p].calls = 0
    BY <1>5, <1>6 DEF Clocked
  <2> QED BY <1>5, <2>1, <2>2, <2>3 DEF Clocked
<1> QED BY <1>5, <1>6, <1>7, <1>8 DEF c

(* The round that finds no record, and the phases that end with it.        *)
LEMMA EndTimes ==
    ASSUME BInv, EndOfCapture
    PROVE  BInv'
<1> DEFINE b == HeaderTimed(bench, file, r)
<1>1. /\ file \in Seq(Byte) /\ pc = "read" /\ Fits(file, r) /\ Clocked(bench, TRUE)
      /\ RecordErr(file, r) # "None" /\ (bench.detailed => Timing)
  BY DEF BInv, EndOfCapture
<1>2. /\ UNCHANGED <<argv, file, table>> /\ r' = [r EXCEPT !.at = Consumed(file, r)]
      /\ bench' = Stop(b, "Total") /\ pc' = "emit"
  BY DEF EndOfCapture, inputs, state
<1>3. r'.decoded = r.decoded
  BY <1>1, <1>2 DEF Fits, ReaderFields
<1>4. /\ Clocked(b, TRUE) /\ b.detailed = bench.detailed
      /\ \A p \in Phases \ {"PacketHeader"} : b.phases[p].calls = bench.phases[p].calls
      /\ bench.detailed => b.phases["PacketHeader"].calls = bench.phases["PacketHeader"].calls
                                + (IF Untouched(file, r) THEN 0 ELSE 1)
  BY <1>1, HeaderClocked, Zenon
<1> HIDE DEF b
<1>5. /\ Clocked(bench', FALSE) /\ bench'.detailed = b.detailed
      /\ \A p \in PerPacket : bench'.phases[p] = b.phases[p]
      /\ bench'.phases["PacketHeader"].elapsed_ns + bench'.phases["Decode"].elapsed_ns
            <= bench'.phases["Total"].elapsed_ns
  BY <1>2, <1>4, StopTotal
<1>6. Clocked(bench, pc = "read")'
  BY <1>2, <1>5
<1>7. (ElapsedOf("PacketHeader") + ElapsedOf("Decode") <= ElapsedOf("Total"))'
  BY <1>5 DEF ElapsedOf
<1>8. ASSUME bench'.detailed
      PROVE  Timed'
  <2>1. bench.detailed /\ Timing
    BY <1>1, <1>4, <1>5, <1>8
  <2>2. /\ \A p \in PerPacket \ {"PacketHeader"} : CallsOf(p)' = CallsOf(p)
        /\ CallsOf("PacketHeader")' = CallsOf("PacketHeader") + (IF Untouched(file, r) THEN 0 ELSE 1)
    BY <1>4, <1>5, <2>1, PhaseNames DEF CallsOf
  <2>3. \A p \in PerPacket : CallsOf(p) \in Nat
    BY <1>1, PhaseNumbers, PhaseNames DEF CallsOf, Clocked
  <2>4. Records(Fates)' = Records(Fates)
    BY <1>2 DEF Records
  <2>5. CallsOf("Decode") = Len(Records(Fates))
    <3>1. CASE SoundFile(file)
      <4>1. ~IsRecord(file, r.at)
        BY <1>1, <3>1, RoundFinds
      <4>2. r.at \in 0 .. Len(file)
        BY <1>1 DEF Fits
      <4>3. Len(Ahead(Fates)) = 0
        <5>1. Ahead(Fates) = <<>>
          BY <1>1, <4>1, <4>2, RecordsFromIs DEF Ahead
        <5> QED BY <5>1
      <4>4. CallsOf("Decode") + 0 = Len(Records(Fates))
        BY <2>1, <3>1, <4>3 DEF Timing
      <4> QED BY <2>3, <4>4, PhaseNames
    <3>2. CASE ~SoundFile(file)
      BY <2>1, <3>2 DEF Timing, Records
    <3> QED BY <3>1, <3>2
  <2>6. CallsOf("Decode")' = CallsOf("Decode")
    BY <2>2, PhaseNames
  <2>7. CallsOf("PacketHeader") = CallsOf("Decode") /\ CallsOf("Decode") \in Nat
    BY <2>1, <2>3, PhaseNames DEF Timing
  <2>8. CallsOf("PacketHeader")' - CallsOf("Decode")' \in {0, 1}
    BY <2>2, <2>6, <2>7
  <2>9. PerFlow'
    <3>1. PerFlow
      BY <2>1 DEF Timing
    <3>2. PacketsIn(table') = PacketsIn(table)
      BY <1>2
    <3>3. /\ CallsOf("DecodePacket")' = CallsOf("DecodePacket")
          /\ CallsOf("FlowLookup")' = CallsOf("FlowLookup")
          /\ CallsOf("AppDecode")' = CallsOf("AppDecode")
          /\ CallsOf("TcpReassembly")' = CallsOf("TcpReassembly")
      BY <2>2, PhaseNames
    <3> QED BY <1>3, <2>6, <3>1, <3>2, <3>3 DEF PerFlow
  <2> QED BY <2>4, <2>5, <2>6, <2>8, <2>9 DEF Timed
<1> QED BY <1>1, <1>2, <1>6, <1>7, <1>8 DEF BInv

(* BInv holds before the benchmark exists.                                 *)
LEMMA BInit == Init => BInv
<1> SUFFICES ASSUME Init PROVE BInv
  OBVIOUS
<1>1. file \in Seq(Byte)
  BY StartsAssumption DEF Init
<1>2. /\ pc = "args" /\ bench = NewBenchmark(FALSE)
      /\ table = [flows |-> << >>, completed |-> <<>>, total_bytes |-> 0]
  BY DEF Init, FT!NewTable
<1>3. Clocked(bench, FALSE)
  BY <1>2, NewBenchmarkIs
<1> QED BY <1>1, <1>2, <1>3 DEF BInv

(* Every step keeps BInv.                                                  *)
LEMMA BStep == BInv /\ [Next]_vars => BInv'
<1> SUFFICES ASSUME BInv, [Next]_vars PROVE BInv'
  OBVIOUS
<1>0. file \in Seq(Byte) /\ file' = file
  BY DEF BInv, Next, vars, inputs, ParseArgs, Told, NoDirectory, NoCapture, NoPacketsFile,
         OpenCapture, SkipPacket, DropPacket, DecodePacket, EndOfCapture, Emit, Finish
<1>1. Clocked(bench, pc = "read")
  BY DEF BInv
<1>2. CASE ParseArgs
  <2>1. pc = "args" /\ UNCHANGED <<pc, bench, table>>
    BY <1>2 DEF ParseArgs, state
  <2> QED BY <1>0, <2>1 DEF BInv
<1>3. CASE Told \/ NoDirectory \/ NoCapture \/ Finish
  <2>1. pc # "read" /\ pc' = "exit" /\ UNCHANGED bench
    BY <1>3 DEF Told, NoDirectory, NoCapture, Finish, Exit, Ready, Starting
  <2>2. Clocked(bench, FALSE)
    BY <1>1, <2>1
  <2>3. Clocked(bench, pc = "read")'
    BY <2>1, <2>2
  <2> QED BY <1>0, <2>1, <2>3 DEF BInv
<1>4. CASE NoPacketsFile
  <2>1. pc' = "exit" /\ bench' = Constructed
    BY <1>4 DEF NoPacketsFile, Exit
  <2>2. Clocked(bench, pc = "read")'
    BY <2>1, ConstructedIs
  <2> QED BY <1>0, <2>1, <2>2 DEF BInv
<1>5. CASE OpenCapture
  BY <1>5, OpenTimes
<1>6. CASE SkipPacket \/ DropPacket
  BY <1>6, RefusedTimes
<1>7. CASE DecodePacket
  BY <1>7, DecodedTimes
<1>8. CASE EndOfCapture
  BY <1>8, EndTimes
<1>9. CASE \E section \in Sections : Emit(section)
  <2>1. pc = "emit" /\ UNCHANGED <<argv, file, pc, r, bench, table>>
    BY <1>9 DEF Emit, inputs, state
  <2> QED BY <2>1 DEF BInv, Timed, PerFlow, CallsOf, ElapsedOf, Records
<1>10. CASE UNCHANGED vars
  <2>1. UNCHANGED <<argv, file, pc, r, bench, table>>
    BY <1>10 DEF vars, inputs, state
  <2> QED BY <2>1 DEF BInv, Timing, Timed, PerFlow, CallsOf, ElapsedOf, Records, Ahead
<1> QED BY <1>2, <1>3, <1>4, <1>5, <1>6, <1>7, <1>8, <1>9, <1>10 DEF Next

(* Whichever way a packet ends, no phase is left running behind it, the    *)
(* phases inside another take no longer than that one, and with -b every   *)
(* record of the capture is timed once: for every capture and filter.      *)
THEOREM PhasesAreBalanced == Spec => []PhasesBalanced
BY BalancedFromInvariant, BInit, BStep, PTL DEF Spec

=============================================================================
