SPECIFICATION MCSpec
CONSTANTS
  Files <- MCFiles
  Options <- MCOptions
  MaxBlocks = 2
  MaxTableChars = 16
  MaxItems = 3
  Pages <- MCPages
  Boxes <- MCBoxes
CHECK_DEADLOCK FALSE
INVARIANTS InReadingOrder ContentIsShown DeniedOnlyAfterTrying TablesKeepTheirShape
  RegionTypeOK CropShowsRegion OcrReadsWhatWasGated
