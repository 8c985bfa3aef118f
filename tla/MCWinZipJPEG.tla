---------------------------- MODULE MCWinZipJPEG ----------------------------
(***************************************************************************)
(* Blocks of five coefficients in place of 64, and runs of one zero in     *)
(* place of 15.  Grey has only a DC value, Long a run that needs a code of *)
(* its own before it and ends at the last coefficient, Edge a negative     *)
(* value.  A Long block at the start of a scan codes to a byte 0xff.       *)
(***************************************************************************)
EXTENDS WinZipJPEG

Grey == [k \in 0..4 |-> 0]
Long == (0 :> 3 @@ 1 :> 0 @@ 2 :> 0 @@ 3 :> 0 @@ 4 :> 1)
Edge == (0 :> 1 @@ 1 :> 0 @@ 2 :> -2 @@ 3 :> 0 @@ 4 :> 0)

MCDCCode == (0 :> <<0, 0>> @@ 1 :> <<0, 1, 0>> @@ 2 :> <<1, 1, 1, 1, 1, 1>>)
MCACCode == (<<0, 0>> :> <<1, 0, 1, 0>> @@ <<0, 1>> :> <<0, 0>> @@ <<0, 2>> :> <<0, 1>>
             @@ <<1, 0>> :> <<1, 1, 1, 1, 1, 1, 1, 1, 0, 0, 1>>
             @@ <<1, 1>> :> <<1, 1, 0, 0>> @@ <<1, 2>> :> <<1, 1, 0, 1, 1>>)

Layout(hmcus, vmcus, factors, interval, slicevalue, patterns) ==
    [hmcus |-> hmcus, vmcus |-> vmcus, factors |-> factors, interval |-> interval,
     slicevalue |-> slicevalue, patterns |-> patterns]

\* One column in slices of two rows and one, with a marker after each MCU;
\* two components of different sampling; slices of one MCU row of two block
\* rows; a marker after every second MCU of a single slice; more markers
\* than there are numbers for; slices of a single row of blocks, of the one
\* component or of the second of two.
MCLayouts ==
    {Layout(1, 3, << <<1, 1>> >>, interval, 1, {Grey, Long, Edge}) : interval \in {0, 1, 2}}
    \cup {Layout(1, 2, << <<2, 1>>, <<1, 1>> >>, 1, 0, {Grey, Long, Edge}),
          Layout(2, 2, << <<1, 2>> >>, 3, 1, {Grey, Long}),
          Layout(3, 1, << <<1, 1>> >>, 2, 0, {Grey, Long}),
          Layout(1, 10, << <<1, 1>> >>, 1, 2, {Long}),
          Layout(2, 2, << <<1, 1>> >>, 0, 1, {Grey, Long}),
          Layout(2, 2, << <<1, 2>>, <<1, 1>> >>, 1, 1, {Edge})}
=============================================================================
