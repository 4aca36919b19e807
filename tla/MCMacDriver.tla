---------------------------- MODULE MCMacDriver -----------------------------
(* The three objects and one that does not exist, every selector the driver    *)
(* knows and one it does not, and buffers around each size it uses.            *)
EXTENDS MacDriver

MCSelectors ==
  CommonSelectors \union
  {"DeviceUID", "Streams", "NominalSampleRate", "IsHidden", "Direction",
   "VirtualFormat", "PhysicalFormat", "TransportType"}
=============================================================================
