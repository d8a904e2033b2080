--------------------------- MODULE MCOneWireSearch ---------------------------
(* Six devices with four-bit codes: their search tree branches at every    *)
(* bit, below both branches of the first one, and one of them is of the    *)
(* family 0 that search() takes for no device.                             *)
EXTENDS OneWireSearch

MCDevices ==
    {<<1, 0, 0, 0>>, <<1, 0, 0, 1>>, <<1, 0, 1, 1>>,
     <<0, 1, 0, 1>>, <<1, 1, 1, 0>>, <<0, 0, 1, 1>>}
=============================================================================
