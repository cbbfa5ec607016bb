SPECIFICATION AnySpec
INVARIANTS AllTypeOK CryptoStandard FramesComeBack  SeeksLand  TextsTrue
CHECK_DEADLOCK FALSE
