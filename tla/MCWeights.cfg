CONSTANTS
 Layers = {"0", "1"}
 MemLayerChoices = {{"0","1"},{"1"}}
 Specs <- MCSpecs
 ExportSpecs <- MCExportSpecs
 Adapters <- MCAdapters
 ExportAdapters <- MCExportAdapters
 Stages = 2
SPECIFICATION Spec
INVARIANT ServedIsTrained
CHECK_DEADLOCK FALSE
