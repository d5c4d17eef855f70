-------------------------- MODULE MCCaptureControl --------------------------
(* Small instances of CaptureControl for TLC.                                *)
EXTENDS CaptureControl

\* Pointers are small numbers, 0 is NULL.
OneDevice  == {1}
TwoDevices == {1, 2}
OneWindow  == {1}
TwoWindows == {1, 2}

\* What the application passes to the API: "any window of any device", and one exact pair.
AnyWindow   == {<<0, 0>>}
AnyAndExact == {<<0, 0>>, <<1, 1>>}

=============================================================================
